---- MODULE Spec2Model ----
(***************************************************************************)
(* A model of cornice_swagger: the schema-to-OpenAPI conversion            *)
(* (DefinitionHandler, ParameterHandler, ResponseHandler) and the          *)
(* document assembly of CorniceSwagger.generate().                         *)
(*                                                                         *)
(* Python values are modelled as follows.                                  *)
(*   - A dict with a known set of keys is a record with one field per key; *)
(*     an absent key is the field's empty value ("" or <<>>).              *)
(*   - None is the string NoneName where a name is expected.               *)
(*   - A registry (a dict keyed by names) is a function whose domain is    *)
(*     the set of its keys.                                                *)
(*   - An exception is a non-empty err field of the result of the operator *)
(*     that models the function; the registries in that result are the     *)
(*     ones the function had written when it raised.                       *)
(***************************************************************************)
EXTENDS Integers, Sequences, FiniteSets, TLC

VARIABLES
    pc,                   \* position of the caller in the specification at hand
    ref,                  \* DefinitionHandler.ref (def_ref_depth)
    param_ref,            \* ParameterHandler.ref
    resp_ref,             \* ResponseHandler.ref
    definition_registry,  \* DefinitionHandler.definition_registry
    reglog,               \* history: {[name, depth]} of the writes to definition_registry
    parameter_registry,   \* ParameterHandler.parameter_registry
    response_registry,    \* ResponseHandler.response_registry
    openapi_spec,         \* CorniceSwagger.openapi_spec
    converter_spec,       \* openapi_spec of the type and parameter converters, 0 when unset
    service,              \* _build_paths: the service of the loop, [path, tags]
    path_obj,             \* _build_paths: the path object of that service
    paths,                \* _build_paths: paths
    tags,                 \* _build_paths: tags
    visited,              \* history: the paths of the services visited, in order
    hist,                 \* history: the views that got an operation
    nviews,               \* history: the number of views met
    ignored_ctypes,       \* CorniceSwagger.ignore_ctypes of the instance
    swagger_info,         \* CorniceSwagger.swagger["info"], the class-level dict
    kwargs,               \* generate(): title, version, base_path, info, swagger
    ignored,              \* history: the views ignored, by method or by content type
    prev,                 \* history: the earlier calls of generate() on the instance
    other,                \* a second CorniceSwagger instance and its call of generate()
    arg,                  \* the argument of the last call
    ret,                  \* the value the last call returned
    err                   \* the exception the last call raised, "" when none

vars == <<pc, ref, param_ref, resp_ref, definition_registry, reglog, parameter_registry,
          response_registry, openapi_spec, converter_spec, service, path_obj, paths, tags,
          visited, hist, nviews, ignored_ctypes, swagger_info, kwargs, ignored, prev,
          other, arg, ret, err>>

(***************************************************************************)
(* Bounds of the model                                                     *)
(***************************************************************************)
\* nesting levels of the schema nodes the calls are given
MaxNest == 2
\* largest positive split depth tried (negative depth -1 is always tried)
MaxDepth == 2

(***************************************************************************)
(* Schema nodes (colander) and converted fragments (dicts)                 *)
(***************************************************************************)
NoneName == "<None>"
NoErr == ""

EmptyReg == [n \in {} |-> 0]

\* a colander schema node: class name, name, title, type kind, children
\* (fields of a mapping, the item template of a sequence), alternatives of a
\* keyword schema (_one_of, _all_of, ...), missing/default markers, validator.
Node(cls, name, title, kind, kw, children, alts, missing, default, validator) ==
    [cls |-> cls, name |-> name, title |-> title, kind |-> kind, kw |-> kw,
     children |-> children, alts |-> alts,
     missing |-> missing, default |-> default, validator |-> validator]

StringNode(name, title, missing, default, validator) ==
    Node("SchemaNode", name, title, "string", "", <<>>, <<>>, missing, default, validator)

MappingNode(cls, name, title, children) ==
    Node(cls, name, title, "mapping", "", children, <<>>, "unset", "unset", "")

SequenceNode(cls, name, title, item) ==
    Node(cls, name, title, "sequence", "", <<item>>, <<>>, "unset", "unset", "")

KeywordNode(cls, name, title, kw, alts) ==
    Node(cls, name, title, "keyword", kw, <<>>, alts, "unset", "unset", "")

\* a converted fragment: {type, title?, default?, enum?, properties?,
\* required?, items?, oneOf?/allOf?/anyOf?/not?} or {"$ref": pointer}
Frag(type, title, kw, items, props, required, default, enum, pointer) ==
    [type |-> type, title |-> title, kw |-> kw, items |-> items, props |-> props,
     required |-> required, default |-> default, enum |-> enum, ref |-> pointer]

\* {"$ref": pointer}
RefFrag(pointer) == Frag("", "", "", <<>>, <<>>, <<>>, "", <<>>, pointer)

IsRef(schema) == schema.ref # ""

Result(r, reg, log, e) == [ret |-> r, reg |-> reg, log |-> log, err |-> e]

\* an exception of the call r propagates to the caller; when r returned, the
\* caller goes on with Then
Try(r, Then(_)) == IF r.err # NoErr THEN r ELSE Then(r)

(***************************************************************************)
(* TypeConverter (cornice_swagger.converters)                              *)
(***************************************************************************)
\* NodeMissing of a node whose default does not change its missing marker
NodeMissing_ignores_default(node) ==
    IF node.missing = "unset" THEN "required" ELSE node.missing

\* the node's missing marker after construction: a node given a default and
\* no missing of its own is no longer required
NodeMissing(node) ==
    IF node.missing = "unset"
    THEN (IF node.default = "unset" THEN "required" ELSE "drop")
    ELSE node.missing

\* colander's SchemaNode.required
NodeRequired(node) == NodeMissing(node) = "required"

RECURSIVE type_converter(_)
RECURSIVE ConvertAll(_)
RECURSIVE ConvertProperties(_)
RECURSIVE RequiredNames(_)

ConvertAll(nodes) ==
    IF nodes = <<>> THEN <<>>
    ELSE <<type_converter(Head(nodes))>> \o ConvertAll(Tail(nodes))

ConvertProperties(children) ==
    IF children = <<>> THEN <<>>
    ELSE <<[name |-> Head(children).name, schema |-> type_converter(Head(children))]>>
         \o ConvertProperties(Tail(children))

RequiredNames(children) ==
    IF children = <<>> THEN <<>>
    ELSE (IF NodeRequired(Head(children)) THEN <<Head(children).name>> ELSE <<>>)
         \o RequiredNames(Tail(children))

type_converter(node) ==
    CASE node.kind = "keyword" ->
            Frag("", node.title, node.kw, ConvertAll(node.alts),
                 ConvertProperties(node.children), RequiredNames(node.children),
                 "", <<>>, "")
      [] node.kind = "mapping" ->
            Frag("object", node.title, "", <<>>,
                 ConvertProperties(node.children), RequiredNames(node.children),
                 "", <<>>, "")
      [] node.kind = "sequence" ->
            Frag("array", node.title, "", ConvertAll(node.children), <<>>, <<>>,
                 "", <<>>, "")
      [] OTHER ->
            Frag("string", node.title, "", <<>>, <<>>, <<>>,
                 IF node.default \in {"unset", "drop"} THEN "" ELSE node.default,
                 IF node.validator = "OneOf" THEN <<"test">> ELSE <<>>, "")

(***************************************************************************)
(* DefinitionHandler                                                       *)
(***************************************************************************)
json_pointer == "#/definitions/"

Truthy(name) == name # NoneName /\ name # ""

\* the (title, name, class) a schema shows to _get_schema_name: a fragment is
\* a dict, it has a "title" key at most and its class is dict
FragNames(schema) == [title |-> schema.title, name |-> "", cls |-> "dict"]

_get_schema_name(schema, base_name) ==
    IF Truthy(base_name) THEN base_name
    ELSE IF schema.title # "" THEN schema.title
    ELSE IF schema.name # "" THEN schema.name
    ELSE schema.cls

\* kw[0].upper() + kw[1:]
Capitalized(kw) ==
    CASE kw = "oneOf" -> "OneOf"
      [] kw = "allOf" -> "AllOf"
      [] kw = "anyOf" -> "AnyOf"
      [] OTHER -> "Not"

RECURSIVE _ref_recursive(_, _, _, _, _)
RECURSIVE _process_items(_, _, _, _, _, _, _)
RECURSIVE _schema_object_to_pointer(_, _, _, _, _)
RECURSIVE RefProperties(_, _, _, _)
RECURSIVE RefItems(_, _, _, _, _, _)

\* RefProperties without the decrement of depth
RECURSIVE RefProperties_same_depth(_, _, _, _)
RefProperties_same_depth(props, depth, reg, log) ==
    IF props = <<>> THEN Result(<<>>, reg, log, NoErr)
    ELSE Try(_ref_recursive(Head(props).schema, depth, NoneName, reg, log),
             LAMBDA first :
                 Try(RefProperties_same_depth(Tail(props), depth, first.reg, first.log),
                     LAMBDA rest :
                         Result(<<[name |-> Head(props).name, schema |-> first.ret]>>
                                \o rest.ret,
                                rest.reg, rest.log, NoErr)))

\* the loop of _schema_object_to_pointer over schema["properties"]: each
\* child is replaced by _ref_recursive(child, depth - 1); ret is the list of
\* the properties processed
RefProperties(props, depth, reg, log) ==
    IF props = <<>> THEN Result(<<>>, reg, log, NoErr)
    ELSE Try(_ref_recursive(Head(props).schema, depth - 1, NoneName, reg, log),
             LAMBDA first :
                 Try(RefProperties(Tail(props), depth, first.reg, first.log),
                     LAMBDA rest :
                         Result(<<[name |-> Head(props).name, schema |-> first.ret]>>
                                \o rest.ret,
                                rest.reg, rest.log, NoErr)))

\* _schema_object_to_pointer that keeps the entry a name already has
_schema_object_to_pointer_keeps_first(schema, depth, base_name, reg, log) ==
    LET name == _get_schema_name(FragNames(schema), base_name)
    IN  Try(RefProperties(schema.props, depth, reg, log),
            LAMBDA children :
                Result(RefFrag(json_pointer \o name),
                       children.reg @@ (name :> [schema EXCEPT !.props = children.ret]),
                       children.log \cup {[name |-> name, depth |-> depth]},
                       NoErr))

_schema_object_to_pointer(schema, depth, base_name, reg, log) ==
    LET name == _get_schema_name(FragNames(schema), base_name)
    IN  Try(RefProperties(schema.props, depth, reg, log),
            LAMBDA children :
                Result(RefFrag(json_pointer \o name),
                       (name :> [schema EXCEPT !.props = children.ret]) @@ children.reg,
                       children.log \cup {[name |-> name, depth |-> depth]},
                       NoErr))

\* the loop of _process_items over item_list, from index i (0-based): ret is
\* ref_list
RefItems(item_list, i, depth, base_name, reg, log) ==
    IF item_list = <<>> THEN Result(<<>>, reg, log, NoErr)
    ELSE LET item == Head(item_list)
             nested == item.kw # ""
             suffix == IF nested THEN Capitalized(item.kw) \o "Item" \o ToString(i)
                       ELSE "Item" \o ToString(i)
             sub_name == IF item.title # "" THEN item.title ELSE base_name \o suffix
         IN  IF item.title = "" /\ base_name = NoneName
             THEN Result(<<>>, reg, log, "TypeError")
             ELSE Try(IF nested
                      THEN _process_items(item, item.kw, item.items, depth - 1, sub_name,
                                          reg, log)
                      ELSE _ref_recursive(item, depth - 1, sub_name, reg, log),
                      LAMBDA first :
                          Try(RefItems(Tail(item_list), i + 1, depth, base_name,
                                       first.reg, first.log),
                              LAMBDA rest :
                                  Result(<<first.ret>> \o rest.ret, rest.reg, rest.log,
                                         NoErr)))

\* _process_items that leaves the schema itself registered under base_name
_process_items_keeps_schema(schema, list_type, item_list, depth, base_name, reg, log) ==
    Try(_schema_object_to_pointer(schema, depth, base_name, reg, log),
        LAMBDA ref_pointer :
            Try(RefItems(item_list, 0, depth, base_name, ref_pointer.reg, ref_pointer.log),
                LAMBDA ref_list :
                    Result(ref_pointer.ret, ref_list.reg,
                           ref_list.log \cup {[name |-> base_name, depth |-> depth]},
                           NoErr)))

_process_items(schema, list_type, item_list, depth, base_name, reg, log) ==
    Try(_schema_object_to_pointer(schema, depth, base_name, reg, log),
        LAMBDA ref_pointer :
            Try(RefItems(item_list, 0, depth, base_name, ref_pointer.reg, ref_pointer.log),
                LAMBDA ref_list :
                    Result(ref_pointer.ret,
                           (base_name :> Frag("", "", list_type, ref_list.ret, <<>>, <<>>,
                                              "", <<>>, "")) @@ ref_list.reg,
                           ref_list.log \cup {[name |-> base_name, depth |-> depth]},
                           NoErr)))

\* the array branch of _ref_recursive
RefArray(schema, depth, base_name, reg, log) ==
    LET name == _get_schema_name(FragNames(schema), base_name)
        items == schema.items[1]
        item_name == IF items.title # "" THEN items.title ELSE schema.title \o "Item"
    IN  Try(_schema_object_to_pointer(schema, depth, base_name, reg, log),
            LAMBDA ref_pointer :
                IF items.title = "" /\ schema.title = ""
                THEN Result(schema, ref_pointer.reg, ref_pointer.log, "TypeError")
                ELSE Try(_ref_recursive(items, depth - 1, item_name,
                                        ref_pointer.reg, ref_pointer.log),
                         LAMBDA sub :
                             \* schema["items"] is assigned in place: the registry
                             \* entry changes with it while it is still this schema
                             Result(ref_pointer.ret,
                                    IF sub.reg[name] = schema
                                    THEN (name :> [schema EXCEPT !.items = <<sub.ret>>])
                                         @@ sub.reg
                                    ELSE sub.reg,
                                    sub.log, NoErr)))

_ref_recursive(schema, depth, base_name, reg, log) ==
    IF depth = 0 THEN Result(schema, reg, log, NoErr)
    ELSE IF schema.kw # ""
    THEN _process_items(schema, schema.kw, schema.items, depth,
                        IF schema.title # "" THEN schema.title ELSE base_name, reg, log)
    ELSE IF schema.type = "array" THEN RefArray(schema, depth, base_name, reg, log)
    ELSE IF schema.type # "object" THEN Result(schema, reg, log, NoErr)
    ELSE _schema_object_to_pointer(schema, depth, base_name, reg, log)

\* from_schema that splits everything when the depth is 0
from_schema_split_always(schema_node, base_name, depth, reg, log) ==
    _ref_recursive(type_converter(schema_node), IF depth = 0 THEN -1 ELSE depth,
                   _get_schema_name(schema_node, base_name), reg, log)

\* DefinitionHandler.from_schema(schema_node, base_name)
from_schema(schema_node, base_name, depth, reg, log) ==
    LET name == _get_schema_name(schema_node, base_name)
    IN  _ref_recursive(type_converter(schema_node), depth, name, reg, log)

(***************************************************************************)
(* The registries of the three handlers of one CorniceSwagger instance     *)
(***************************************************************************)
Handlers(defs, log, params, resps) ==
    [defs |-> defs, log |-> log, params |-> params, resps |-> resps]

HResult(r, h, e) == [ret |-> r, h |-> h, err |-> e]

\* the result of a DefinitionHandler call as the registries of h
WithDefinitions(d, h) == HResult(d.ret, [h EXCEPT !.defs = d.reg, !.log = d.log], d.err)

\* DefinitionHandler.from_schema on the definition registry of h
DefinitionsFromSchema(schema_node, base_name, depth, h) ==
    WithDefinitions(from_schema(schema_node, base_name, depth, h.defs, h.log), h)

(***************************************************************************)
(* ParameterConverter (cornice_swagger.converters) and ParameterHandler    *)
(***************************************************************************)
\* a parameter object {name, in, required, type? | schema?} or {"$ref": pointer};
\* required is "true", "false" or "" (no such key)
Param(name, location, required, type, schema, pointer) ==
    [name |-> name, in |-> location, required |-> required, type |-> type,
     schema |-> schema, ref |-> pointer]

ParamRef(pointer) == Param("", "", "", "", <<>>, pointer)

BoolStr(b) == IF b THEN "true" ELSE "false"

\* headers -> header, GET/querystring -> query
NormalizedLocation(location) ==
    CASE location = "headers" -> "header"
      [] location \in {"GET", "querystring"} -> "query"
      [] OTHER -> location

parameter_converter(location, schema_node) ==
    IF location = "body"
    THEN Param(schema_node.name, "body", BoolStr(NodeRequired(schema_node)), "",
               <<type_converter(schema_node)>>, "")
    ELSE Param(schema_node.name, NormalizedLocation(location),
               IF location = "path" THEN "true" ELSE BoolStr(NodeRequired(schema_node)),
               "string", <<>>, "")

parameter_pointer == "#/parameters/"

\* ParameterHandler._ref that takes another name when the name is taken
ParameterRef_renames(param, h) ==
    IF param.name \in DOMAIN h.params
    THEN HResult(ParamRef(parameter_pointer \o param.name \o "_"),
                 [h EXCEPT !.params = ((param.name \o "_") :> param) @@ h.params], NoErr)
    ELSE HResult(ParamRef(parameter_pointer \o param.name),
                 [h EXCEPT !.params = (param.name :> param) @@ h.params], NoErr)

\* ParameterHandler._ref(param): the name is that of the parameter
ParameterRef(param, h) ==
    HResult(ParamRef(parameter_pointer \o param.name),
            [h EXCEPT !.params = (param.name :> param) @@ h.params], NoErr)

\* param = self._ref(param) when self.ref
ReferencedParam(param, as_ref, h) ==
    IF as_ref THEN ParameterRef(param, h) ELSE HResult(param, h, NoErr)

\* the inner loop of ParameterHandler.from_schema over the children of a
\* path/header/querystring group
RECURSIVE GroupParams(_, _, _, _)
GroupParams(location, children, param_ref_, h) ==
    IF children = <<>> THEN HResult(<<>>, h, NoErr)
    ELSE Try(ReferencedParam(parameter_converter(location, Head(children)), param_ref_, h),
             LAMBDA first :
                 Try(GroupParams(location, Tail(children), param_ref_, first.h),
                     LAMBDA rest : HResult(<<first.ret>> \o rest.ret, rest.h, NoErr)))

\* the body branch of ParameterHandler.from_schema
BodyParam(param_schema, schema_node, depth, param_ref_, h) ==
    LET name == IF param_schema.cls = "body" THEN schema_node.cls \o "Body"
                ELSE param_schema.cls
        param == [parameter_converter("body", param_schema) EXCEPT !.name = name]
    IN  IF ~param_ref_ THEN HResult(param, h, NoErr)
        ELSE Try(ParameterRef(param, h),
                 LAMBDA referenced :
                     IF depth = 0 THEN referenced
                     ELSE Try(DefinitionsFromSchema(param_schema, name, depth, referenced.h),
                              LAMBDA body_ref :
                                  HResult(referenced.ret,
                                          [body_ref.h EXCEPT !.params[name].schema =
                                                                 <<body_ref.ret>>],
                                          NoErr)))

\* one turn of the loop of ParameterHandler.from_schema: the parameters of
\* param_schema
ParamsOfChild(param_schema, schema_node, depth, param_ref_, h) ==
    IF param_schema.name = "body"
    THEN Try(BodyParam(param_schema, schema_node, depth, param_ref_, h),
             LAMBDA b : HResult(<<b.ret>>, b.h, NoErr))
    ELSE IF param_schema.name \in {"path", "header", "headers", "querystring", "GET"}
    THEN GroupParams(param_schema.name, param_schema.children, param_ref_, h)
    ELSE HResult(<<>>, h, NoErr)

\* ParameterHandler.from_schema(schema_node): the loop over schema_node.children
RECURSIVE ParamsFromChildren(_, _, _, _, _)
ParamsFromChildren(children, schema_node, depth, param_ref_, h) ==
    IF children = <<>> THEN HResult(<<>>, h, NoErr)
    ELSE Try(ParamsOfChild(Head(children), schema_node, depth, param_ref_, h),
             LAMBDA first :
                 Try(ParamsFromChildren(Tail(children), schema_node, depth, param_ref_,
                                        first.h),
                     LAMBDA rest : HResult(first.ret \o rest.ret, rest.h, NoErr)))

ParametersFromSchema(schema_node, depth, param_ref_, h) ==
    ParamsFromChildren(schema_node.children, schema_node, depth, param_ref_, h)

\* path.split("/"): the components of the paths of the model; a component is
\* its text and whether it starts with "{" and ends with "}"
Component(text, open, close) == [text |-> text, open |-> open, close |-> close]

PathComponents(path) ==
    CASE path = "/jobs" -> <<Component("", FALSE, FALSE), Component("jobs", FALSE, FALSE)>>
      [] path = "/jobs/{job_id}" ->
            <<Component("", FALSE, FALSE), Component("jobs", FALSE, FALSE),
              Component("job_id", TRUE, TRUE)>>
      [] OTHER -> <<Component("", FALSE, FALSE)>>

\* ParamsFromComponents that takes every component starting with "{" for a
\* parameter
RECURSIVE ParamsFromComponents_open_only(_, _, _)
ParamsFromComponents_open_only(components, param_ref_, h) ==
    IF components = <<>> THEN HResult(<<>>, h, NoErr)
    ELSE IF ~Head(components).open
    THEN ParamsFromComponents_open_only(Tail(components), param_ref_, h)
    ELSE Try(ReferencedParam(parameter_converter("path",
                                                 StringNode(Head(components).text, "",
                                                            "unset", "unset", "")),
                             param_ref_, h),
             LAMBDA first :
                 Try(ParamsFromComponents_open_only(Tail(components), param_ref_, first.h),
                     LAMBDA rest : HResult(<<first.ret>> \o rest.ret, rest.h, NoErr)))

\* ParameterHandler.from_path(path): the loop over the components
RECURSIVE ParamsFromComponents(_, _, _)
ParamsFromComponents(components, param_ref_, h) ==
    IF components = <<>> THEN HResult(<<>>, h, NoErr)
    ELSE IF ~(Head(components).open /\ Head(components).close)
    THEN ParamsFromComponents(Tail(components), param_ref_, h)
    ELSE Try(ReferencedParam(parameter_converter("path",
                                                 StringNode(Head(components).text, "",
                                                            "unset", "unset", "")),
                             param_ref_, h),
             LAMBDA first :
                 Try(ParamsFromComponents(Tail(components), param_ref_, first.h),
                     LAMBDA rest : HResult(<<first.ret>> \o rest.ret, rest.h, NoErr)))

from_path(path, param_ref_, h) == ParamsFromComponents(PathComponents(path), param_ref_, h)

(***************************************************************************)
(* ResponseHandler                                                         *)
(***************************************************************************)
\* a response schema: its class name, its description ("" when it has none)
\* and its children (body, headers)
ResponseSchema(cls, description, children) ==
    [cls |-> cls, description |-> description, children |-> children]

\* a response object {summary?, description?, schema?, headers?, content?} or
\* {"$ref": pointer}; content maps a content type to {"schema": fragment}
Response(summary, description, schema, headers, content, pointer) ==
    [summary |-> summary, description |-> description, schema |-> schema,
     headers |-> headers, content |-> content, ref |-> pointer]

response_pointer == "#/responses/"

\* header.pop("title") for each header: KeyError when a header has no title
RECURSIVE StripTitles(_)
StripTitles(props) ==
    IF props = <<>> THEN <<>>
    ELSE <<[Head(props) EXCEPT !.schema.title = ""]>> \o StripTitles(Tail(props))

\* the body branch of from_schema_mapping: field_schema.title is set to the
\* name of its class
ResponseBody(field_schema, response_schema, depth, h) ==
    DefinitionsFromSchema([field_schema EXCEPT
                              !.title = IF field_schema.cls = "body"
                                        THEN response_schema.cls \o "Body"
                                        ELSE field_schema.cls],
                          NoneName, depth, h)

\* the headers branch of from_schema_mapping
ResponseHeaders(headers, response, h) ==
    IF \E i \in 1 .. Len(headers) : headers[i].schema.title = ""
    THEN HResult(response, h, "KeyError")
    ELSE HResult([response EXCEPT !.headers = StripTitles(headers)], h, NoErr)

\* the loop of from_schema_mapping over response_schema.children
RECURSIVE ResponseFields(_, _, _, _, _)
ResponseFields(children, response_schema, response, depth, h) ==
    IF children = <<>> THEN HResult(response, h, NoErr)
    ELSE IF Head(children).name = "body"
    THEN Try(ResponseBody(Head(children), response_schema, depth, h),
             LAMBDA body :
                 ResponseFields(Tail(children), response_schema,
                                [response EXCEPT !.schema = <<body.ret>>], depth, body.h))
    ELSE IF Head(children).name \in {"header", "headers"}
    THEN Try(ResponseHeaders(type_converter(Head(children)).props, response, h),
             LAMBDA with_headers :
                 ResponseFields(Tail(children), response_schema, with_headers.ret, depth,
                                with_headers.h))
    ELSE ResponseFields(Tail(children), response_schema, response, depth, h)

\* ResponseHandler._ref(response, pointer) when self.ref
ReferencedResponse(response, name, as_ref, h) ==
    IF as_ref
    THEN HResult(Response("", "", <<>>, <<>>, EmptyReg, response_pointer \o name),
                 [h EXCEPT !.resps = (name :> response) @@ @], NoErr)
    ELSE HResult(response, h, NoErr)

\* ResponseHandler.from_schema_mapping(schema_mapping): the loop over the
\* (status, response_schema) items of the mapping, in their order
RECURSIVE from_schema_mapping(_, _, _, _)
from_schema_mapping(schema_mapping, depth, resp_ref_, h) ==
    IF schema_mapping = <<>> THEN HResult(EmptyReg, h, NoErr)
    ELSE IF Head(schema_mapping).schema.description = ""
    THEN HResult(EmptyReg, h, "MissingDescription")
    ELSE Try(ResponseFields(Head(schema_mapping).schema.children,
                            Head(schema_mapping).schema,
                            Response(Head(schema_mapping).schema.description, "",
                                     <<>>, <<>>, EmptyReg, ""),
                            depth, h),
             LAMBDA fields :
                 Try(ReferencedResponse(fields.ret, Head(schema_mapping).schema.cls,
                                        resp_ref_, fields.h),
                     LAMBDA response :
                         Try(from_schema_mapping(Tail(schema_mapping), depth, resp_ref_,
                                                 response.h),
                             LAMBDA rest :
                                 HResult((Head(schema_mapping).status :> response.ret)
                                         @@ rest.ret,
                                         rest.h, NoErr))))

(***************************************************************************)
(* merge_dicts (cornice_swagger.util): changes are merged into base        *)
(* recursively, dict by dict; a key of base whose value is no dict keeps   *)
(* the value base has for it (setdefault)                                  *)
(***************************************************************************)
\* base.setdefault(k, v) for a key whose absent value is empty
SetDefault(base_value, change_value, empty) ==
    IF base_value # empty THEN base_value ELSE change_value

Names(props) == {props[i].name : i \in 1 .. Len(props)}

PropNamed(props, name) == props[CHOOSE i \in 1 .. Len(props) : props[i].name = name]

RECURSIVE MergeFrag(_, _)
RECURSIVE MergeProps(_, _)

\* the properties of changes merged into those of base: the keys of base
\* first, in their order, then the new keys of changes
MergeProps(base, changes) ==
    [i \in 1 .. Len(base) |->
        IF base[i].name \in Names(changes)
        THEN [base[i] EXCEPT !.schema = MergeFrag(@, PropNamed(changes, base[i].name).schema)]
        ELSE base[i]]
    \o SelectSeq(changes, LAMBDA p : p.name \notin Names(base))

MergeFrag(base, changes) ==
    [type |-> SetDefault(base.type, changes.type, ""),
     title |-> SetDefault(base.title, changes.title, ""),
     kw |-> SetDefault(base.kw, changes.kw, ""),
     items |-> IF base.kw = "" /\ changes.kw = "" /\ base.items # <<>> /\ changes.items # <<>>
               THEN <<MergeFrag(base.items[1], changes.items[1])>>
               ELSE SetDefault(base.items, changes.items, <<>>),
     props |-> MergeProps(base.props, changes.props),
     required |-> SetDefault(base.required, changes.required, <<>>),
     default |-> SetDefault(base.default, changes.default, ""),
     enum |-> SetDefault(base.enum, changes.enum, <<>>),
     ref |-> SetDefault(base.ref, changes.ref, "")]

MergeSchema(base, changes) ==
    IF base # <<>> /\ changes # <<>> THEN <<MergeFrag(base[1], changes[1])>>
    ELSE SetDefault(base, changes, <<>>)

\* two dicts keyed by names, merged entry by entry with Merge
MergeMap(base, changes, Merge(_, _)) ==
    [k \in DOMAIN base \cup DOMAIN changes |->
        IF k \in DOMAIN base /\ k \in DOMAIN changes THEN Merge(base[k], changes[k])
        ELSE IF k \in DOMAIN base THEN base[k]
        ELSE changes[k]]

MergeContent(base, changes) == [schema |-> MergeFrag(base.schema, changes.schema)]

MergeResponse(base, changes) ==
    [summary |-> SetDefault(base.summary, changes.summary, ""),
     description |-> SetDefault(base.description, changes.description, ""),
     schema |-> MergeSchema(base.schema, changes.schema),
     headers |-> MergeProps(base.headers, changes.headers),
     content |-> MergeMap(base.content, changes.content, MergeContent),
     ref |-> SetDefault(base.ref, changes.ref, "")]

MergeParam(base, changes) ==
    [name |-> SetDefault(base.name, changes.name, ""),
     in |-> SetDefault(base.in, changes.in, ""),
     required |-> SetDefault(base.required, changes.required, ""),
     type |-> SetDefault(base.type, changes.type, ""),
     schema |-> MergeSchema(base.schema, changes.schema),
     ref |-> SetDefault(base.ref, changes.ref, "")]

MergeRequestBody(base, changes) ==
    [content |-> MergeMap(base.content, changes.content, MergeParam),
     required |-> base.required]

\* merge_dicts(path_obj[method_key], op)
MergeOperation(base, changes) ==
    [responses |-> MergeMap(base.responses, changes.responses, MergeResponse),
     produces |-> SetDefault(base.produces, changes.produces, <<>>),
     consumes |-> SetDefault(base.consumes, changes.consumes, <<>>),
     parameters |-> SetDefault(base.parameters, changes.parameters, <<>>),
     requestBody |-> IF base.requestBody # <<>> /\ changes.requestBody # <<>>
                     THEN <<MergeRequestBody(base.requestBody[1], changes.requestBody[1])>>
                     ELSE SetDefault(base.requestBody, changes.requestBody, <<>>),
     tags |-> SetDefault(base.tags, changes.tags, <<>>)]

\* merge_dicts(swagger["paths"], paths), for one path
MergePathObject(base, changes) ==
    [parameters |-> SetDefault(base.parameters, changes.parameters, <<>>),
     ops |-> MergeMap(base.ops, changes.ops, MergeOperation)]

(***************************************************************************)
(* CorniceSwagger                                                          *)
(***************************************************************************)
ignore_methods == {"HEAD", "OPTIONS"}

ignore_ctypes == {}

default_content_type == "application/json"

\* str.lower on the method names of the model
Lower(method) ==
    CASE method \in {"GET", "get"} -> "get"
      [] method \in {"POST", "post"} -> "post"
      [] method \in {"HEAD", "head"} -> "head"
      [] method \in {"OPTIONS", "options"} -> "options"
      [] OTHER -> method

\* a view of a service: its method and the arguments of its decorator; an
\* argument that is a list of zero or one value is an optional argument
View(method, renderer, content_type, schema, response_schemas, view_tags) ==
    [method |-> method, renderer |-> renderer, content_type |-> content_type,
     schema |-> schema, response_schemas |-> response_schemas, tags |-> view_tags]

\* an operation object; consumes, parameters, requestBody and tags are lists
\* of zero or one value: the key is absent, or holds the value
Operation(responses, produces, consumes, parameters, requestBody, op_tags) ==
    [responses |-> responses, produces |-> produces, consumes |-> consumes,
     parameters |-> parameters, requestBody |-> requestBody, tags |-> op_tags]

UndocumentedResponses ==
    "default" :> Response("", "UNDOCUMENTED RESPONSE", <<>>, <<>>, EmptyReg, "")

\* the produces of a view from its accept/renderer argument
Produces(renderer) ==
    CASE renderer \in {"application/json", "text/xml", "text/plain"} -> <<renderer>>
      [] renderer \in {"json", "simplejson"} -> <<"application/json">>
      [] renderer = "xml" -> <<"text/xml">>
      [] OTHER -> <<>>

_extract_operation_from_view(args, depth, param_ref_, resp_ref_, h) ==
    Try(IF args.schema = <<>> THEN HResult(<<>>, h, NoErr)
        ELSE ParametersFromSchema(args.schema[1], depth, param_ref_, h),
        LAMBDA parameters :
            Try(IF args.response_schemas = <<>>
                THEN HResult(UndocumentedResponses, parameters.h, NoErr)
                ELSE from_schema_mapping(args.response_schemas[1], depth, resp_ref_,
                                         parameters.h),
                LAMBDA responses :
                    HResult(Operation(responses.ret,
                                      Produces(args.renderer),
                                      args.content_type,
                                      IF parameters.ret = <<>> THEN <<>>
                                      ELSE <<parameters.ret>>,
                                      <<>>,
                                      args.tags),
                            responses.h, NoErr)))

\* '$ref'.split('/parameters/')[-1] of the pointers ParameterHandler._ref makes
RefKey(reg, pointer) == CHOOSE k \in DOMAIN reg : parameter_pointer \o k = pointer

\* the loop of _convert_to_oas3 over parameters, which removes the body
\* parameters from the list it iterates: the element that follows a removed
\* one is not visited. ret is <<parameters left, bodies>>, a body being
\* [key, ref]: the registry key ("" when inline) and the parameter
RECURSIVE SplitBodies(_, _)
SplitBodies(parameters, h) ==
    IF parameters = <<>> THEN [left |-> <<>>, bodies |-> <<>>]
    ELSE LET param == Head(parameters)
             key == IF param.ref # "" THEN RefKey(h.params, param.ref) ELSE ""
             param_def == IF param.ref # "" THEN h.params[key] ELSE param
         IN  IF param_def.in = "body"
             THEN LET skipped == IF Len(parameters) >= 2 THEN <<parameters[2]>> ELSE <<>>
                      rest == SplitBodies(IF Len(parameters) >= 2
                                          THEN Tail(Tail(parameters)) ELSE <<>>, h)
                  IN  [left |-> skipped \o rest.left,
                       bodies |-> <<[key |-> key, param |-> param]>> \o rest.bodies]
             ELSE LET rest == SplitBodies(Tail(parameters), h)
                  IN  [left |-> <<param>> \o rest.left, bodies |-> rest.bodies]

\* the loop of _convert_to_oas3 over bodies: body.pop('in'),
\* body.pop('required') and one content entry per content type; a body of the
\* parameter registry is changed in the registry
RECURSIVE RequestBodies(_, _, _, _, _)
RequestBodies(bodies, consumes, content, required, h) ==
    IF bodies = <<>> THEN [content |-> content, required |-> required, h |-> h]
    ELSE LET body == Head(bodies)
             body_def == IF body.key # "" THEN h.params[body.key] ELSE body.param
             ctypes == IF consumes = <<>> THEN <<default_content_type>> ELSE consumes
             popped == [body_def EXCEPT !.in = "", !.required = ""]
             entry == IF body.key # "" THEN body.param ELSE popped
             h1 == IF body.key # "" THEN [h EXCEPT !.params[body.key] = popped] ELSE h
         IN  RequestBodies(Tail(bodies), ctypes,
                           [c \in {ctypes[i] : i \in 1 .. Len(ctypes)} |-> entry] @@ content,
                           required \/ body_def.required = "true", h1)

\* ContentResponse that leaves the response as it is under version 2
ContentResponse_unmoved(resp, produces) == resp

\* the loop of _convert_to_oas3 over the responses: the schema (or the "$ref")
\* of a response moves under content, keyed by the content type
ContentResponse(resp, produces) ==
    LET body == IF resp.ref # "" THEN <<RefFrag(resp.ref)>> ELSE resp.schema
    IN  IF body = <<>> THEN resp
        ELSE [resp EXCEPT !.schema = <<>>,
                          !.ref = "",
                          !.content = produces[Len(produces)] :> [schema |-> body[1]]]

\* the operation _convert_to_oas3 leaves, given the parameters left and the
\* bodies (split) and the request body made from the bodies (request)
ConvertedOperation(operations, split, request) ==
    HResult([operations EXCEPT
                !.consumes = <<>>,
                !.produces = <<>>,
                !.parameters = IF @ = <<>> THEN <<>> ELSE <<split.left>>,
                !.requestBody = IF split.bodies = <<>> THEN <<>>
                                ELSE <<[content |-> request.content,
                                        required |-> request.required]>>,
                !.responses = [code \in DOMAIN operations.responses |->
                                  IF code = "default" THEN operations.responses[code]
                                  ELSE ContentResponse(
                                           operations.responses[code],
                                           IF operations.produces = <<>>
                                           THEN <<default_content_type>>
                                           ELSE operations.produces)]],
            request.h, NoErr)

\* the request body of the bodies split from the parameters
RequestOfBodies(operations, split, h) ==
    ConvertedOperation(operations, split,
                       RequestBodies(split.bodies,
                                     IF operations.consumes = <<>> THEN <<>>
                                     ELSE operations.consumes[1],
                                     EmptyReg, FALSE, h))

_convert_to_oas3(operations, h) ==
    RequestOfBodies(operations,
                    IF operations.parameters = <<>> THEN [left |-> <<>>, bodies |-> <<>>]
                    ELSE SplitBodies(operations.parameters[1], h),
                    h)

\* _extract_info of _validate_diff_oas3: the (code, content type) variations
Variations(op) ==
    UNION {{[code |-> code, ctype |-> ctype] : ctype \in DOMAIN op.responses[code].content} :
              code \in DOMAIN op.responses}

\* TRUE when _validate_diff_oas3 raises
_validate_diff_oas3(operation, previous_definition) ==
    Variations(operation) \cap Variations(previous_definition) # {}

\* _get_tags without the test `root_tag not in tags`
_get_tags_appends(current_tags, new_tags) == current_tags \o new_tags

\* _get_tags(current_tags, new_tags): root tags are {"name": tag}
RECURSIVE _get_tags(_, _)
_get_tags(current_tags, new_tags) ==
    IF new_tags = <<>> THEN current_tags
    ELSE _get_tags(IF \E i \in 1 .. Len(current_tags) : current_tags[i] = Head(new_tags)
                   THEN current_tags
                   ELSE Append(current_tags, Head(new_tags)),
                   Tail(new_tags))

\* list(OrderedDict.fromkeys(new_tags))
Deduplicated(new_tags) == _get_tags(<<>>, new_tags)

(***************************************************************************)
(* Schema nodes given to DefinitionHandler.from_schema                     *)
(***************************************************************************)
Leaves == {StringNode("s", t, "unset", "unset", "") : t \in {"", "S"}}

\* the second alternative of the allOf schemas
Alternative == MappingNode("Alt", "alt", "Alt", <<StringNode("a", "", "unset", "unset", "")>>)

RECURSIVE Nodes(_)
Nodes(n) ==
    IF n = 0 THEN Leaves
    ELSE LET sub == Nodes(n - 1)
         IN  sub
             \cup {MappingNode("Obj", "obj", t, <<[c EXCEPT !.name = "p"]>>) :
                       t \in {"", "Obj"}, c \in sub}
             \cup {SequenceNode("Seq", "seq", t, c) : t \in {"", "Seq"}, c \in sub}
             \cup {KeywordNode("Kw", "kw", t, "oneOf", <<c>>) : t \in {"", "Kw"}, c \in sub}
             \cup {KeywordNode("All", "all", t, "allOf", <<c, Alternative>>) :
                       t \in {"", "All"}, c \in sub}

BaseNames == {NoneName, "Base"}

Depths == (-1) .. MaxDepth

(***************************************************************************)
(* SpecDef: one DefinitionHandler and calls of from_schema                 *)
(***************************************************************************)
NoArg == [node |-> StringNode("", "", "unset", "unset", ""), base_name |-> NoneName]

\* the locals of _build_paths before the loop
NoService == [path |-> "", tags |-> <<>>]

EmptyPathObj == [parameters |-> <<>>, ops |-> EmptyReg]

\* CorniceSwagger.api_title, api_version and base_path
api_title == ""

api_version == ""

base_path == "/"

\* an info dict {title, version, description}; a key that is absent is ""
Info(title, version, description) ==
    [title |-> title, version |-> version, description |-> description]

\* swagger = {'info': {}}
NoInfo == Info("", "", "")

\* a base document {info?, basePath?, tags?, paths?, definitions?}: info
\* and tags are lists of zero or one value, basePath is "" when absent
BaseDocument(info, basePath, base_tags, base_paths, definitions) ==
    [info |-> info, basePath |-> basePath, tags |-> base_tags, paths |-> base_paths,
     definitions |-> definitions]

\* the arguments of generate() other than openapi_spec; None is "" or <<>>
Kwargs(title, version, path, info, swagger) ==
    [title |-> title, version |-> version, base_path |-> path, info |-> info,
     swagger |-> swagger]

NoKwargs == Kwargs("", "", "", <<>>, <<>>)

\* no second instance
NoOther == [pc |-> "none", openapi_spec |-> 3, title |-> "", info |-> NoInfo]

\* a CorniceSwagger class before any call of generate
NotGenerating ==
    /\ openapi_spec = 3
    /\ converter_spec = 0
    /\ service = NoService
    /\ path_obj = EmptyPathObj
    /\ paths = EmptyReg
    /\ tags = <<>>
    /\ visited = <<>>
    /\ hist = {}
    /\ nviews = 0
    /\ ignored_ctypes = ignore_ctypes
    /\ swagger_info = NoInfo
    /\ kwargs = NoKwargs
    /\ ignored = {}
    /\ prev = <<>>
    /\ other = NoOther

generateVars == <<openapi_spec, converter_spec, service, path_obj, paths, tags, visited,
                  hist, nviews, ignored_ctypes, swagger_info, kwargs, ignored, prev, other>>

InitDef ==
    /\ pc = "idle"
    /\ ref \in Depths
    /\ param_ref = FALSE
    /\ resp_ref = FALSE
    /\ definition_registry = EmptyReg
    /\ reglog = {}
    /\ parameter_registry = EmptyReg
    /\ response_registry = EmptyReg
    /\ NotGenerating
    /\ arg = NoArg
    /\ ret = <<>>
    /\ err = NoErr

\* the state after a call of from_schema
Called(r) ==
    /\ definition_registry' = r.reg
    /\ reglog' = r.log
    /\ err' = r.err
    /\ ret' = IF r.err = NoErr THEN <<r.ret>> ELSE <<>>
    /\ pc' = IF r.err = NoErr THEN "returned" ELSE "raised"

CallFromSchema(schema_node, base_name) ==
    /\ pc = "idle"
    /\ Called(from_schema(schema_node, base_name, ref, definition_registry, reglog))
    /\ arg' = [node |-> schema_node, base_name |-> base_name]
    /\ UNCHANGED <<ref, param_ref, resp_ref, parameter_registry, response_registry>>
    /\ UNCHANGED generateVars

NextDef == \E schema_node \in Nodes(MaxNest), base_name \in BaseNames :
               CallFromSchema(schema_node, base_name)

SpecDef == InitDef /\ [][NextDef]_vars

(***************************************************************************)
(* Claims on DefinitionHandler                                             *)
(***************************************************************************)
IsLeafNode(node) == node.kind = "string"

\* a mapping whose one field is a mapping of primitive fields
IsTwoLevelObject(node) ==
    /\ node.kind = "mapping"
    /\ Len(node.children) = 1
    /\ node.children[1].kind = "mapping"
    /\ \A i \in 1 .. Len(node.children[1].children) :
           IsLeafNode(node.children[1].children[i])

RECURSIVE HasRef(_)
RECURSIVE AnyHasRef(_)
AnyHasRef(schemas) ==
    schemas # <<>> /\ (HasRef(Head(schemas)) \/ AnyHasRef(Tail(schemas)))

\* a "$ref" occurs in the fragment
HasRef(schema) ==
    \/ IsRef(schema)
    \/ AnyHasRef(schema.items)
    \/ AnyHasRef([i \in 1 .. Len(schema.props) |-> schema.props[i].schema])

\* C7: with split depth 1, from_schema on a two-level nested object returns
\* exactly {"$ref": "#/definitions/<Name>"}; the registry then holds the one
\* entry <Name>, which is the full converted object with its nested
\* properties inline.
C7_SplitDepthOne ==
    (pc = "returned" /\ ref = 1 /\ IsTwoLevelObject(arg.node)) =>
        LET name == _get_schema_name(arg.node, arg.base_name)
        IN  /\ ret = <<RefFrag("#/definitions/" \o name)>>
            /\ DOMAIN definition_registry = {name}
            /\ definition_registry[name] = type_converter(arg.node)
            /\ ~HasRef(definition_registry[name])

C7_Witness ==
    /\ pc = "returned" /\ ref = 1 /\ IsTwoLevelObject(arg.node)
    /\ arg.base_name = NoneName
    /\ "Obj" \in DOMAIN definition_registry
    /\ definition_registry["Obj"].props[1].schema.type = "object"

\* C8: for a split depth d >= 1 the depth is decremented at each split
\* boundary and splitting stops at zero: a definition is registered only
\* for a fragment fewer than d boundaries below the root (it is written
\* with a remaining depth of 1 .. d), and with d = 1 only the top-level
\* fragment is registered and everything nested stays inline.
C8_DepthBoundsSplitting ==
    (pc = "returned" /\ ref >= 1) =>
        /\ \A e \in reglog : e.depth >= 1 /\ e.depth <= ref
        /\ ref = 1 =>
              /\ Cardinality(DOMAIN definition_registry) <= 1
              /\ \A n \in DOMAIN definition_registry : ~HasRef(definition_registry[n])

\* the name _process_items gives the item i (0-based) of a composition
\* registered under parent
ItemName(item, parent, i) ==
    IF item.title # "" THEN item.title
    ELSE parent \o (IF item.kw # "" THEN Capitalized(item.kw) ELSE "") \o "Item"
                \o ToString(i)

\* the name a composition is registered under: its title, else the name
\* from_schema computed
ParentName(node, base_name) ==
    IF node.title # "" THEN node.title ELSE _get_schema_name(node, base_name)

\* the names of the items differ from one another and from the parent's
DistinctNames(items, parent) ==
    /\ \A i \in 1 .. Len(items) : ItemName(items[i], parent, i - 1) # parent
    /\ \A i, j \in 1 .. Len(items) :
           i # j => ItemName(items[i], parent, i - 1) # ItemName(items[j], parent, j - 1)

IsComposition(node) == pc = "returned" /\ ref # 0 /\ arg.node.kind = "keyword"

ItemIsSplit(item) == item.kw # "" \/ (ref # 1 /\ item.type \in {"object", "array"})

IsArrayCall == pc # "idle" /\ ref # 0 /\ arg.node.kind = "sequence"

\* the name the items of an array are split under: their own title, else
\* <array title>Item, else <base_name>Item
ArrayItemName(frag, base_name) ==
    IF frag.items[1].title # "" THEN frag.items[1].title
    ELSE IF frag.title # "" THEN frag.title \o "Item"
    ELSE base_name \o "Item"

\* the items of an array are split (one level shallower) when they are an
\* object or a composition and left inline otherwise
ArrayItemsSplit(frag, name) ==
    /\ name \in DOMAIN definition_registry
    /\ definition_registry[name].type = "array"
    /\ IF ref # 1 /\ (frag.items[1].kw # "" \/ frag.items[1].type = "object")
       THEN /\ definition_registry[name].items =
                   <<RefFrag(json_pointer \o ArrayItemName(frag, name))>>
            /\ ArrayItemName(frag, name) \in DOMAIN definition_registry
       ELSE frag.items[1].type # "array" => definition_registry[name].items = frag.items

\* C19: with a non-zero split depth, from_schema on an array completes
\* without error, also for an array that has no title; its items are split
\* only when they are an object or a composition, one level shallower,
\* under the items' title, else <array title>Item, else <base_name>Item, and
\* a $ref then replaces items.
C19_ArraySplit ==
    IsArrayCall =>
        /\ pc = "returned"
        /\ ArrayItemsSplit(type_converter(arg.node),
                           _get_schema_name(arg.node, arg.base_name))

\* C20: with split depth 0, from_schema returns the converted fragment fully
\* inline (no $ref in it) and leaves the definition registry unchanged, for
\* every schema node.
C20_DepthZeroInline ==
    (pc # "idle" /\ ref = 0) =>
        /\ pc = "returned"
        /\ ret = <<type_converter(arg.node)>>
        /\ ~HasRef(ret[1])
        /\ definition_registry = EmptyReg
        /\ reglog = {}

C20_Witness ==
    /\ pc = "returned" /\ ref = 0
    /\ arg.node.kind = "keyword"
    /\ Len(arg.node.alts) = 2
    /\ arg.node.alts[1].kind = "sequence"
    /\ ret[1].items[2].type = "object"

\* a fragment that is no object, no array, no composition and no pointer
IsPrimitive(schema) ==
    schema.kw = "" /\ schema.type \notin {"object", "array"} /\ ~IsRef(schema)

\* the fragments a fragment holds: its properties, and its items (of an
\* array) or alternatives (of a composition)
Parts(schema) ==
    {schema.props[i].schema : i \in 1 .. Len(schema.props)}
    \cup {schema.items[i] : i \in 1 .. Len(schema.items)}

\* C21: with a negative split depth, after from_schema every object, array
\* and composition, at any level, is registered and replaced by a $ref: the
\* call returns a $ref unless the fragment is primitive, and no registry
\* entry holds an object, an array or a composition inline; a primitive
\* fragment is never registered and stays inline
C21_SplitsAllTheWay ==
    (pc = "returned" /\ ref < 0) =>
        /\ IF IsPrimitive(type_converter(arg.node))
           THEN ret[1] = type_converter(arg.node) /\ definition_registry = EmptyReg
           ELSE IsRef(ret[1])
        /\ \A name \in DOMAIN definition_registry :
              /\ ~IsPrimitive(definition_registry[name])
              /\ \A part \in Parts(definition_registry[name]) :
                    IsRef(part) \/ IsPrimitive(part)

(***************************************************************************)
(* Spec: one CorniceSwagger and one call of generate(), the loops of       *)
(* _build_paths taken one service and one view at a time                   *)
(***************************************************************************)
\* services visited by one call of generate
MaxServices == 2
\* views met by one call of generate
MaxViews == 2

\* LooseVersion(str(openapi_spec)).version of the versions tried
Versions == {<<2>>, <<3, 0, 0>>, <<1>>, <<4, 0>>}

\* (def_ref_depth, param_ref, resp_ref) of the instances tried
Settings == {[ref |-> 0, param_ref |-> FALSE, resp_ref |-> FALSE],
             [ref |-> 1, param_ref |-> TRUE, resp_ref |-> TRUE],
             [ref |-> 0, param_ref |-> TRUE, resp_ref |-> FALSE]}

JobStatusInfo ==
    MappingNode("JobStatusInfo", "body", "",
                <<StringNode("jobID", "", "unset", "unset", ""),
                  StringNode("message", "", "drop", "unset", "")>>)

JobRequest ==
    MappingNode("JobRequest", "body", "", <<StringNode("name", "", "unset", "unset", "")>>)

OkResponse == ResponseSchema("OkResponse", "job status", <<JobStatusInfo>>)

UndescribedResponse == ResponseSchema("UndescribedResponse", "", <<JobStatusInfo>>)

PostSchema ==
    MappingNode("PostSchema", "", "",
                <<JobRequest,
                  MappingNode("QuerySchema", "querystring", "",
                              <<StringNode("verbose", "", "drop", "unset", "")>>)>>)

Views ==
    {View("GET", "json", <<>>, <<>>, <<<<[status |-> "200", schema |-> OkResponse]>>>>, <<>>),
     View("GET", "text/xml", <<>>, <<>>,
          <<<<[status |-> "200", schema |-> OkResponse]>>>>, <<>>),
     View("GET", "json", <<>>, <<>>,
          <<<<[status |-> "200", schema |-> OkResponse],
              [status |-> "404", schema |-> UndescribedResponse]>>>>, <<>>),
     View("POST", "", <<<<"application/json">>>>, <<PostSchema>>, <<>>, <<<<"jobs">>>>),
     View("HEAD", "", <<>>, <<>>, <<>>, <<>>)}

Services == {[path |-> p, tags |-> <<>>] : p \in {"/jobs", "/jobs/{job_id}"}}

Init ==
    /\ pc = "idle"
    /\ \E s \in Settings : ref = s.ref /\ param_ref = s.param_ref /\ resp_ref = s.resp_ref
    /\ definition_registry = EmptyReg
    /\ reglog = {}
    /\ parameter_registry = EmptyReg
    /\ response_registry = EmptyReg
    /\ NotGenerating
    /\ arg = <<>>
    /\ ret = <<>>
    /\ err = NoErr

handlerVars == <<ref, param_ref, resp_ref>>

registryVars == <<definition_registry, reglog, parameter_registry, response_registry>>

\* the registries of the handlers of the instance
Registries == Handlers(definition_registry, reglog, parameter_registry, response_registry)

SetRegistries(h) ==
    /\ definition_registry' = h.defs
    /\ reglog' = h.log
    /\ parameter_registry' = h.params
    /\ response_registry' = h.resps

\* VersionCheck with the assignments made before the check
VersionCheck_assign_first(version, self_spec, conv_spec) ==
    [openapi_spec |-> version[1], converter_spec |-> version[1],
     err |-> IF version[1] \notin {2, 3} THEN "InvalidSpecVersion" ELSE NoErr]

\* the head of generate(): the version check and the three assignments;
\* version is LooseVersion(str(openapi_spec)).version
VersionCheck(version, self_spec, conv_spec) ==
    IF version[1] \notin {2, 3}
    THEN [openapi_spec |-> self_spec, converter_spec |-> conv_spec,
          err |-> "InvalidSpecVersion"]
    ELSE [openapi_spec |-> version[1], converter_spec |-> version[1], err |-> NoErr]


\* info.update(title=title, version=version), with title = title or
\* self.api_title and version = version or self.api_version
InfoUpdated(info, kw) ==
    [info EXCEPT !.title = IF kw.title # "" THEN kw.title ELSE api_title,
                 !.version = IF kw.version # "" THEN kw.version ELSE api_version]

\* the variables an action of generate() on the instance leaves alone
instanceVars == <<ignored_ctypes, prev, other>>

\* generate(openapi_spec=version, **kw) up to the call of _build_paths: the
\* version check, then info = info or self.swagger.get("info") and its
\* update, which changes the dict given (kwargs keeps the arguments as they
\* were given) or the class-level one
generate(version, kw) ==
    /\ pc = "idle"
    /\ LET head == VersionCheck(version, openapi_spec, converter_spec)
       IN  /\ openapi_spec' = head.openapi_spec
           /\ converter_spec' = head.converter_spec
           /\ err' = head.err
           /\ pc' = IF head.err = NoErr THEN "services" ELSE "raised"
           /\ kwargs' = kw
           /\ swagger_info' = IF head.err = NoErr /\ kw.info = <<>>
                               THEN InfoUpdated(swagger_info, kw)
                               ELSE swagger_info
    /\ arg' = version
    /\ UNCHANGED <<service, path_obj, paths, tags, visited, hist, nviews, ignored, ret>>
    /\ UNCHANGED handlerVars
    /\ UNCHANGED registryVars
    /\ UNCHANGED instanceVars

\* the path object _extract_path_from_service makes of the path parameters
PathObjectOf(parameters) ==
    /\ SetRegistries(parameters.h)
    /\ path_obj' = [parameters |-> parameters.ret, ops |-> EmptyReg]

\* _build_paths: the head of the loop over the services, up to the loop
\* over the definitions of the service
BeginService(s) ==
    /\ pc = "services"
    /\ Len(visited) < MaxServices
    /\ PathObjectOf(from_path(s.path, param_ref, Registries))
    /\ service' = s
    /\ tags' = _get_tags(tags, s.tags)
    /\ visited' = Append(visited, s.path)
    /\ pc' = "views"
    /\ UNCHANGED <<openapi_spec, converter_spec, paths, hist, nviews, arg, ret, err>>
    /\ UNCHANGED <<swagger_info, kwargs, ignored>>
    /\ UNCHANGED handlerVars
    /\ UNCHANGED instanceVars

\* the outcome of one turn of the loop over the definitions of a service:
\* [path_obj, tags, h, err, met, variations]; met is TRUE when the view got
\* an operation or met the operation of the method
Turn(po, root_tags, h, e, met, variations) ==
    [path_obj |-> po, tags |-> root_tags, h |-> h, err |-> e, met |-> met,
     variations |-> variations, skip |-> ""]

\* any(ctype in op.get("consumes", []) for ctype in self.ignore_ctypes)
IgnoredByContentType(op, ctypes) ==
    op.consumes # <<>> /\ \E i \in 1 .. Len(op.consumes[1]) : op.consumes[1][i] \in ctypes

\* the turn of a view that is ignored (`continue`): by its method, or by
\* its content type after the handlers extracted its operation
SkipTurn(po, root_tags, h, by) ==
    [Turn(po, root_tags, h, NoErr, FALSE, {}) EXCEPT !.skip = by]

\* the end of a turn: the tags of the service and of the operation, and
\* path_obj[method_key] set or merged
StoreOperation(method_key, op, op_tags, po, root_tags, service_tags, h) ==
    Turn([po EXCEPT !.ops =
             (method_key :>
                 IF method_key \in DOMAIN po.ops
                 THEN MergeOperation(
                          po.ops[method_key],
                          IF service_tags = <<>> THEN op
                          ELSE [op EXCEPT !.tags = <<Deduplicated(service_tags \o op_tags)>>])
                 ELSE IF service_tags = <<>> THEN op
                 ELSE [op EXCEPT !.tags = <<Deduplicated(service_tags \o op_tags)>>])
             @@ @],
         _get_tags(root_tags, op_tags), h, NoErr, TRUE, Variations(op))

\* the reconciliation of a turn: under version 2 a method that has an
\* operation is an error; under version 3 the operation is converted and
\* checked against the operation the method has
Reconcile(method_key, spec, po, root_tags, service_tags, converted) ==
    IF spec < 3 /\ method_key \in DOMAIN po.ops
    THEN Turn(po, root_tags, converted.h, "DuplicateMethod", TRUE,
              Variations(converted.ret))
    ELSE IF spec >= 3 /\ method_key \in DOMAIN po.ops
            /\ _validate_diff_oas3(converted.ret, po.ops[method_key])
    THEN Turn(po, root_tags, converted.h, "ConflictingContentType", TRUE,
              Variations(converted.ret))
    ELSE StoreOperation(method_key, converted.ret,
                        IF converted.ret.tags = <<>> THEN <<>> ELSE converted.ret.tags[1],
                        po, root_tags, service_tags, converted.h)

\* the operation of a view under the version: converted under version 3,
\* unless the view is ignored for its content type
OperationOfView(extracted, spec, ctypes) ==
    IF extracted.err # NoErr \/ spec < 3 \/ IgnoredByContentType(extracted.ret, ctypes)
    THEN extracted
    ELSE _convert_to_oas3(extracted.ret, extracted.h)

\* TurnOfOperation without the test of ignore_ctypes
TurnOfOperation_never_ignored(method_key, spec, po, root_tags, service_tags, converted, ctypes) ==
    IF converted.err # NoErr
    THEN Turn(po, root_tags, converted.h, converted.err, FALSE, {})
    ELSE Reconcile(method_key, spec, po, root_tags, service_tags, converted)

\* the turn of a view whose method is not ignored, given its operation
\* (consumes is popped from a converted operation)
TurnOfOperation(method_key, spec, po, root_tags, service_tags, converted, ctypes) ==
    IF converted.err # NoErr
    THEN Turn(po, root_tags, converted.h, converted.err, FALSE, {})
    ELSE IF IgnoredByContentType(converted.ret, ctypes)
    THEN SkipTurn(po, root_tags, converted.h, "ctype")
    ELSE Reconcile(method_key, spec, po, root_tags, service_tags, converted)

\* one turn of the loop over the definitions of a service, for (method, view, args)
ViewStep(view, spec, po, root_tags, service_tags, h) ==
    IF Lower(view.method) \in {Lower(method) : method \in ignore_methods}
    THEN SkipTurn(po, root_tags, h, "method")
    ELSE TurnOfOperation(Lower(view.method), spec, po, root_tags, service_tags,
                         OperationOfView(
                             _extract_operation_from_view(view, ref, param_ref, resp_ref, h),
                             spec, ignored_ctypes),
                         ignored_ctypes)

\* the state after a turn of the loop
AfterTurn(view, step) ==
    /\ SetRegistries(step.h)
    /\ path_obj' = step.path_obj
    /\ tags' = step.tags
    /\ err' = step.err
    /\ pc' = IF step.err = NoErr THEN "views" ELSE "raised"
    /\ hist' = IF step.met
               THEN hist \cup {[idx |-> nviews + 1, svc |-> Len(visited),
                                path |-> service.path,
                                method |-> Lower(view.method),
                                view |-> view,
                                variations |-> step.variations]}
               ELSE hist
    /\ ignored' = IF step.skip # ""
                  THEN ignored \cup {[idx |-> nviews + 1, svc |-> Len(visited),
                                      path |-> service.path,
                                      method |-> Lower(view.method),
                                      view |-> view,
                                      by |-> step.skip]}
                  ELSE ignored

\* _build_paths: one turn of the loop over service.definitions
ProcessView(view) ==
    /\ pc = "views"
    /\ nviews < MaxViews
    /\ AfterTurn(view, ViewStep(view, openapi_spec, path_obj, tags, service.tags, Registries))
    /\ nviews' = nviews + 1
    /\ UNCHANGED <<openapi_spec, converter_spec, service, paths, visited, arg, ret>>
    /\ UNCHANGED <<swagger_info, kwargs>>
    /\ UNCHANGED handlerVars
    /\ UNCHANGED instanceVars

\* _build_paths: paths[path] = path_obj, after the last view of the service
EndService ==
    /\ pc = "views"
    /\ paths' = (service.path :> path_obj) @@ paths
    /\ pc' = "services"
    /\ UNCHANGED <<openapi_spec, converter_spec, service, path_obj, tags, visited, hist,
                   nviews, arg, ret, err>>
    /\ UNCHANGED <<swagger_info, kwargs, ignored>>
    /\ UNCHANGED handlerVars
    /\ UNCHANGED registryVars
    /\ UNCHANGED instanceVars

\* swagger = swagger or self.swagger: the base document of the call
BaseOf(kw) ==
    IF kw.swagger = <<>> THEN BaseDocument(<<>>, "", <<>>, EmptyReg, EmptyReg)
    ELSE kw.swagger[1]

\* the tags of the document: those of the base document, then the
\* extracted ones whose name no tag of the base document has
RootTags(base_tags, all_tags) ==
    base_tags
    \o SelectSeq([i \in 1 .. Len(all_tags) |-> [name |-> all_tags[i], description |-> ""]],
                 LAMBDA tag : \A j \in 1 .. Len(base_tags) : base_tags[j].name # tag.name)

\* the document generate() returns: a copy of the base document updated
\* with info, basePath and the version key, and the sections merged into it
Document(spec, kw, info, all_paths, all_tags, h) ==
    [swagger |-> IF spec = 2 THEN "2.0" ELSE "",
     openapi |-> IF spec = 2 THEN "" ELSE "3.0.0",
     info |-> info,
     basePath |-> IF kw.base_path # "" THEN kw.base_path ELSE base_path,
     paths |-> MergeMap(BaseOf(kw).paths, all_paths, MergePathObject),
     tags |-> RootTags(IF BaseOf(kw).tags = <<>> THEN <<>> ELSE BaseOf(kw).tags[1],
                       all_tags),
     definitions |-> MergeMap(BaseOf(kw).definitions, h.defs, MergeFrag),
     parameters |-> h.params,
     responses |-> h.resps]

\* generate(): the rest of the call, after the last service
Finish ==
    /\ pc = "services"
    /\ ret' = <<Document(openapi_spec, kwargs,
                         IF kwargs.info # <<>> THEN InfoUpdated(kwargs.info[1], kwargs)
                         ELSE swagger_info,
                         paths, tags, Registries)>>
    /\ pc' = "returned"
    /\ UNCHANGED <<openapi_spec, converter_spec, service, path_obj, paths, tags, visited,
                   hist, nviews, arg, err>>
    /\ UNCHANGED <<swagger_info, kwargs, ignored>>
    /\ UNCHANGED handlerVars
    /\ UNCHANGED registryVars
    /\ UNCHANGED instanceVars

Next ==
    \/ \E version \in Versions : generate(version, NoKwargs)
    \/ \E s \in Services : BeginService(s)
    \/ \E view \in Views : ProcessView(view)
    \/ EndService
    \/ Finish

Spec == Init /\ [][Next]_vars


(***************************************************************************)
(* Claims on generate()                                                    *)
(***************************************************************************)
\* two views that got (or met) an operation for one (path, method)
SameMethod(a, b) == a.idx # b.idx /\ a.path = b.path /\ a.method = b.method

\* C1: under version 2, generate() fails with the duplicate-method error as
\* soon as a second non-ignored view is met for a (path, method) that has
\* an operation, on one service or on two services that share the path, and
\* returns no document then.
C1_DuplicateMethodRejected ==
    (pc # "idle" /\ openapi_spec = 2 /\ \E a, b \in hist : SameMethod(a, b)) =>
        pc = "raised" /\ err = "DuplicateMethod" /\ ret = <<>>

\* C2: under version 3, generate() fails with the conflicting-content-type
\* error whenever a view defines a (status, content type) pair that an
\* earlier view of that (path, method) defined; so in a returned document
\* each (status, content type) entry of an operation comes from one view.
C2_ConflictRejected ==
    (pc # "idle" /\ openapi_spec = 3) =>
        /\ (\E a, b \in hist : SameMethod(a, b) /\ a.variations \cap b.variations # {})
               => pc = "raised" /\ err = "ConflictingContentType"
        /\ pc = "returned" =>
               \A path \in DOMAIN ret[1].paths :
                   \A method \in DOMAIN ret[1].paths[path].ops :
                       \A v \in Variations(ret[1].paths[path].ops[method]) :
                           Cardinality({a \in hist : /\ a.path = path
                                                     /\ a.method = method
                                                     /\ v \in a.variations}) = 1

\* the document has the (status, content type) entry v of the operation of
\* (path, method)
DocumentHolds(document, path, method, v) ==
    /\ path \in DOMAIN document.paths
    /\ method \in DOMAIN document.paths[path].ops
    /\ v.code \in DOMAIN document.paths[path].ops[method].responses
    /\ v.ctype \in DOMAIN document.paths[path].ops[method].responses[v.code].content

\* C3: under version 3, two views of one (path, method) whose responses use
\* different content types do not conflict, and the operation of the
\* returned document keeps, for each status, one content entry per content
\* type contributed by either view.
C3_ContentTypesMerged ==
    (pc # "idle" /\ openapi_spec = 3) =>
        /\ err = "ConflictingContentType" =>
               \E a, b \in hist : SameMethod(a, b) /\ a.variations \cap b.variations # {}
        /\ pc = "returned" =>
               \A a, b \in hist :
                   SameMethod(a, b) =>
                       \A v \in a.variations \cup b.variations :
                           DocumentHolds(ret[1], a.path, a.method, v)

JobPath == "/jobs/{job_id}"

JsonOk == [code |-> "200", ctype |-> "application/json"]

\* the view of GET /jobs/{job_id}: rendered as json, answering
\* {200: {description, body}}
JobView ==
    View("GET", "json", <<>>, <<>>, <<<<[status |-> "200", schema |-> OkResponse]>>>>, <<>>)

\* one service declares GET /jobs/{job_id} with that view
JobRouteDeclared ==
    /\ Cardinality({i \in 1 .. Len(visited) : visited[i] = JobPath}) = 1
    /\ \E a \in hist : a.path = JobPath /\ a.method = "get" /\ a.view = JobView

\* C4: under version 3 with split depth 0 and no reference mode, for a
\* route GET /jobs/{job_id} answering {200: {description, body}} the document
\* holds the converted body inline under
\* paths[path]["get"]["responses"]["200"]["content"]["application/json"]["schema"];
\* its required lists exactly the required fields of the body and the
\* missing=drop field is a property that is not in required.
C4_EndToEndInlineBody ==
    (pc = "returned" /\ openapi_spec = 3 /\ ref = 0 /\ ~param_ref /\ ~resp_ref
     /\ JobRouteDeclared) =>
        /\ DocumentHolds(ret[1], JobPath, "get", JsonOk)
        /\ LET schema == ret[1].paths[JobPath].ops["get"].responses["200"]
                               .content["application/json"].schema
           IN  /\ schema = type_converter([JobStatusInfo EXCEPT !.title = "JobStatusInfo"])
               /\ ~HasRef(schema)
               /\ schema.required = <<"jobID">>
               /\ Names(schema.props) = {"jobID", "message"}

C4_Witness ==
    /\ pc = "returned" /\ openapi_spec = 3 /\ ref = 0 /\ ~param_ref /\ ~resp_ref
    /\ JobRouteDeclared
    /\ Len(visited) = 2
    /\ ret[1].openapi = "3.0.0"

\* C6: generate() called with a version whose major number is neither 2 nor
\* 3 fails at call start: no service is visited, no registry entry is added
\* and the version of the instance and of the converters is not changed.
C6_InvalidVersionFailsAtStart ==
    /\ (pc # "idle" /\ arg[1] \notin {2, 3}) => pc = "raised" /\ err = "InvalidSpecVersion"
    /\ err = "InvalidSpecVersion" =>
           /\ visited = <<>> /\ hist = {} /\ nviews = 0 /\ ret = <<>>
           /\ definition_registry = EmptyReg
           /\ parameter_registry = EmptyReg
           /\ response_registry = EmptyReg
           /\ openapi_spec = 3
           /\ converter_spec = 0

C6_Witness == pc = "raised" /\ err = "InvalidSpecVersion" /\ arg = <<4, 0>>


(***************************************************************************)
(* SpecResp: one ResponseHandler (with its DefinitionHandler) and one call *)
(* of from_schema_mapping                                                  *)
(***************************************************************************)
NotFoundResponse == ResponseSchema("NotFoundResponse", "no such job", <<>>)

HeadersSchema ==
    MappingNode("HeadersSchema", "headers", "",
                <<StringNode("Location", "Location", "unset", "unset", "")>>)

CreatedResponse == ResponseSchema("CreatedResponse", "job created", <<HeadersSchema>>)

ResponseSchemas == {OkResponse, UndescribedResponse, NotFoundResponse, CreatedResponse}

\* the response_schemas dicts tried: one or two statuses, in their order
SchemaMappings ==
    {<<[status |-> "200", schema |-> s]>> : s \in ResponseSchemas}
    \cup {<<[status |-> a, schema |-> s], [status |-> b, schema |-> t]>> :
              a \in {"200"}, b \in {"404"}, s \in ResponseSchemas, t \in ResponseSchemas}
    \cup {<<[status |-> a, schema |-> s], [status |-> b, schema |-> t]>> :
              a \in {"404"}, b \in {"200"}, s \in ResponseSchemas, t \in ResponseSchemas}

InitResp ==
    /\ pc = "idle"
    /\ ref \in {0, 1}
    /\ param_ref = FALSE
    /\ resp_ref \in BOOLEAN
    /\ definition_registry = EmptyReg
    /\ reglog = {}
    /\ parameter_registry = EmptyReg
    /\ response_registry = EmptyReg
    /\ NotGenerating
    /\ arg = <<>>
    /\ ret = <<>>
    /\ err = NoErr

\* the state after a call of from_schema_mapping
Mapped(r) ==
    /\ SetRegistries(r.h)
    /\ err' = r.err
    /\ ret' = IF r.err = NoErr THEN <<r.ret>> ELSE <<>>
    /\ pc' = IF r.err = NoErr THEN "returned" ELSE "raised"

CallFromSchemaMapping(schema_mapping) ==
    /\ pc = "idle"
    /\ Mapped(from_schema_mapping(schema_mapping, ref, resp_ref, Registries))
    /\ arg' = schema_mapping
    /\ UNCHANGED handlerVars
    /\ UNCHANGED generateVars

NextResp == \E schema_mapping \in SchemaMappings : CallFromSchemaMapping(schema_mapping)

SpecResp == InitResp /\ [][NextResp]_vars

(***************************************************************************)
(* Claims on ResponseHandler                                               *)
(***************************************************************************)
\* C5: from_schema_mapping raises the missing-description error whenever the
\* response schema of any status has no description, and before any output:
\* no response object is returned and no entry is added to the response or
\* definition registry for any status of the mapping.
C5_MissingDescriptionBeforeOutput ==
    /\ (pc # "idle" /\ \E i \in 1 .. Len(arg) : arg[i].schema.description = "")
           => pc = "raised" /\ err = "MissingDescription"
    /\ err = "MissingDescription" =>
           /\ ret = <<>>
           /\ response_registry = EmptyReg
           /\ definition_registry = EmptyReg


(***************************************************************************)
(* SpecSchema: a mapping schema of one field "test", converted and         *)
(* deserialized (tests/test_openapi.py)                                    *)
(***************************************************************************)
Markers == {"unset", "drop", "required"}

Defaults == {"unset", "test", "drop"}

Validators == {"", "OneOf"}

\* FieldTestString(missing=..., default=..., validator=...)
FieldTestString(missing, default, validator) ==
    StringNode("test", "test", missing, default, validator)

\* the schema classes of the tests: the arguments of their field
TestClasses ==
    {"Mapping", "Default", "Missing", "DefaultMissing", "DefaultMissingValidator",
     "Validator", "DefaultDropValidator", "DefaultDropRequired", "DefaultValidator",
     "MissingValidator"}

TestField(cls) ==
    CASE cls = "Mapping" -> FieldTestString("unset", "unset", "")
      [] cls = "Default" -> FieldTestString("unset", "test", "")
      [] cls = "Missing" -> FieldTestString("drop", "unset", "")
      [] cls = "DefaultMissing" -> FieldTestString("drop", "test", "")
      [] cls = "DefaultMissingValidator" -> FieldTestString("drop", "test", "OneOf")
      [] cls = "Validator" -> FieldTestString("unset", "unset", "OneOf")
      [] cls = "DefaultDropValidator" -> FieldTestString("unset", "drop", "OneOf")
      [] cls = "DefaultDropRequired" -> FieldTestString("required", "drop", "OneOf")
      [] cls = "DefaultValidator" -> FieldTestString("unset", "test", "OneOf")
      [] cls = "MissingValidator" -> FieldTestString("drop", "unset", "OneOf")

\* the class of the tests that declares the field, "Untested" when none does
ClassOf(field) ==
    IF \E cls \in TestClasses : TestField(cls) = field
    THEN CHOOSE cls \in TestClasses : TestField(cls) = field
    ELSE "Untested"

\* schema_expected of the class: the fragment of the mapping, given what it
\* holds for the field (required or not, its default, its enum)
Expected(cls, required, default, enum) ==
    Frag("object", cls, "", <<>>,
         <<[name |-> "test",
            schema |-> Frag("string", "test", "", <<>>, <<>>, <<>>, default, enum, "")]>>,
         required, "", <<>>, "")

schema_expected(cls) ==
    CASE cls = "Mapping" -> Expected(cls, <<"test">>, "", <<>>)
      [] cls = "Default" -> Expected(cls, <<>>, "test", <<>>)
      [] cls = "Missing" -> Expected(cls, <<>>, "", <<>>)
      [] cls = "DefaultMissing" -> Expected(cls, <<>>, "test", <<>>)
      [] cls = "DefaultMissingValidator" -> Expected(cls, <<>>, "test", <<"test">>)
      [] cls = "Validator" -> Expected(cls, <<"test">>, "", <<"test">>)
      [] cls = "DefaultDropValidator" -> Expected(cls, <<>>, "", <<"test">>)
      [] cls = "DefaultDropRequired" -> Expected(cls, <<"test">>, "", <<"test">>)
      [] cls = "DefaultValidator" -> Expected(cls, <<>>, "test", <<"test">>)
      [] cls = "MissingValidator" -> Expected(cls, <<>>, "", <<"test">>)

\* the values given to deserialize: {} is "omitted", {"test": None} is "null",
\* {"test": v} is v
TestValues == {"omitted", "null", "random", "bad", "test"}

\* the outcomes of deserialize: colander.Invalid, or the dict returned, {} or
\* {"test": value}
Invalid == [value |-> <<>>, err |-> "Invalid"]

Dropped == [value |-> <<>>, err |-> NoErr]

Kept(value) == [value |-> <<value>>, err |-> NoErr]

\* the (class, value) pairs of test_schema_default_missing_validator_combinations
Tested(cls, value) ==
    /\ cls \in TestClasses
    /\ value \in IF TestField(cls).validator = "" THEN {"omitted", "null", "random"}
                 ELSE {"omitted", "null", "bad", "test"}


\* test_expect of the (class, value) pairs of the test
test_expect(cls, value) ==
    CASE cls = "Mapping" ->
            (IF value \in {"omitted", "null"} THEN Invalid ELSE Kept(value))
      [] cls = "Default" ->
            (IF value \in {"omitted", "null"} THEN Kept("test") ELSE Kept(value))
      [] cls = "Missing" ->
            (IF value \in {"omitted", "null"} THEN Dropped ELSE Kept(value))
      [] cls = "DefaultMissing" ->
            (IF value = "omitted" THEN Kept("test")
             ELSE IF value = "null" THEN Dropped ELSE Kept(value))
      [] cls = "Validator" ->
            (IF value \in {"omitted", "null", "bad"} THEN Invalid ELSE Kept(value))
      [] cls = "DefaultValidator" ->
            (IF value \in {"omitted", "null"} THEN Kept("test")
             ELSE IF value = "bad" THEN Invalid ELSE Kept(value))
      [] cls = "DefaultMissingValidator" ->
            (IF value = "omitted" THEN Kept("test")
             ELSE IF value = "null" THEN Dropped
             ELSE IF value = "bad" THEN Invalid ELSE Kept(value))
      [] cls = "MissingValidator" ->
            (IF value \in {"omitted", "null"} THEN Dropped
             ELSE IF value = "bad" THEN Invalid ELSE Kept(value))
      [] cls \in {"DefaultDropRequired", "DefaultDropValidator"} ->
            (IF value \in {"omitted", "null", "bad"} THEN Dropped ELSE Kept(value))

\* deserialize that drops a value failing the validator when missing is drop
deserialize_drops_invalid(cls, value) ==
    IF value = "bad" /\ TestField(cls).missing = "drop" THEN Dropped
    ELSE test_expect(cls, value)

\* test_schema().deserialize(test_value), as the test pins it
deserialize(cls, value) == test_expect(cls, value)

\* the mapping schemas tried: a class of the tests, or a mapping of another
\* field, and the value given to deserialize
SchemaCases ==
    {[cls |-> ClassOf(FieldTestString(missing, default, validator)),
      node |-> MappingNode(ClassOf(FieldTestString(missing, default, validator)), "",
                           ClassOf(FieldTestString(missing, default, validator)),
                           <<FieldTestString(missing, default, validator)>>),
      value |-> value] :
        missing \in Markers, default \in Defaults, validator \in Validators,
        value \in TestValues}

InitSchema ==
    /\ pc = "idle"
    /\ ref = 0
    /\ param_ref = FALSE
    /\ resp_ref = FALSE
    /\ definition_registry = EmptyReg
    /\ reglog = {}
    /\ parameter_registry = EmptyReg
    /\ response_registry = EmptyReg
    /\ NotGenerating
    /\ arg \in SchemaCases
    /\ ret = <<>>
    /\ err = NoErr

\* converter.convert_type(schema())
ConvertType ==
    /\ pc = "idle"
    /\ ret' = <<type_converter(arg.node)>>
    /\ pc' = "converted"
    /\ UNCHANGED <<arg, err>>
    /\ UNCHANGED handlerVars
    /\ UNCHANGED registryVars
    /\ UNCHANGED generateVars

\* the state after a call of deserialize
Deserialized(result) ==
    /\ ret' = IF result.err = NoErr THEN <<result.value>> ELSE <<>>
    /\ err' = result.err
    /\ pc' = IF result.err = NoErr THEN "deserialized" ELSE "raised"

\* test_schema().deserialize(test_value)
Deserialize ==
    /\ pc = "idle"
    /\ Tested(arg.cls, arg.value)
    /\ Deserialized(deserialize(arg.cls, arg.value))
    /\ UNCHANGED arg
    /\ UNCHANGED handlerVars
    /\ UNCHANGED registryVars
    /\ UNCHANGED generateVars

NextSchema == ConvertType \/ Deserialize

SpecSchema == InitSchema /\ [][NextSchema]_vars

(***************************************************************************)
(* Claims on the conversion and the deserialization of a mapping           *)
(***************************************************************************)
\* the field of the mapping at hand
Field == arg.node.children[1]

\* C9: in the fragment converted from a mapping, for every missing in
\* {unset, drop, required}, default in {unset, value, drop} and validator in
\* {unset, OneOf}, the child is listed in required exactly when it has no
\* default and missing is not drop, or when missing is the required
\* sentinel; a child with a default and no missing is not listed; the
\* required key is omitted when no child qualifies. The fragment is the
\* schema_expected of the class when a test declares the class.
C9_RequiredTruthTable ==
    pc = "converted" =>
        LET listed == \E i \in 1 .. Len(ret[1].required) : ret[1].required[i] = "test"
        IN  /\ listed <=> \/ Field.default = "unset" /\ Field.missing # "drop"
                          \/ Field.missing = "required"
            /\ (Field.default = "test" /\ Field.missing = "unset") => ~listed
            /\ ~listed => ret[1].required = <<>>
            /\ listed => ret[1].required = <<"test">>
            /\ arg.cls \in TestClasses => ret[1] = schema_expected(arg.cls)

C9_Witness ==
    /\ pc = "converted"
    /\ arg.cls = "DefaultDropRequired"
    /\ ret[1].required = <<"test">>

\* the call of deserialize ended, with the dict it returned or with Invalid
Ended == pc \in {"deserialized", "raised"}

Returned(dict) == pc = "deserialized" /\ err = NoErr /\ ret = <<dict>>

Raised == pc = "raised" /\ err = "Invalid" /\ ret = <<>>

\* parts (c) and (d) of the truth table of deserialize
RequiredAndDefaultRows ==
    /\ (Field.missing = "unset" /\ Field.default = "unset"
        /\ arg.value \in {"omitted", "null"}) => Raised
    /\ (Field.missing = "unset" /\ Field.default = "test") =>
           /\ arg.value \in {"omitted", "null"} => Returned(<<"test">>)
           /\ arg.value = "bad" => Raised

MaxSegments == 2

PathSegments ==
    {<<>>, <<"j">>, <<"{", "i", "d", "}">>, <<"{", "o", "}">>, <<"{", "}">>,
     <<"{", "i">>, <<"i", "}">>, <<"{">>, <<"}">>, <<"a", "{", "i", "}">>}

RECURSIVE PathsOf(_)
PathsOf(n) ==
    IF n = 0 THEN {<<>>}
    ELSE PathsOf(n - 1)
         \cup {<<seg>> \o path : seg \in PathSegments,
                                 path \in {q \in PathsOf(n - 1) : Len(q) = n - 1}}

\* the string of a sequence of characters
RECURSIVE Str(_)
Str(chars) == IF chars = <<>> THEN "" ELSE Head(chars) \o Str(Tail(chars))

\* comp.startswith("{"), comp.endswith("}") and comp[1:-1] of a segment
SegmentComponent(seg) ==
    Component(Str(SubSeq(seg, 2, Len(seg) - 1)),
              seg # <<>> /\ seg[1] = "{",
              seg # <<>> /\ seg[Len(seg)] = "}")

\* path.split("/")
SplitPath(path) == [i \in 1 .. Len(path) |-> SegmentComponent(path[i])]

InitPath ==
    /\ pc = "idle"
    /\ ref = 0
    /\ param_ref \in BOOLEAN
    /\ resp_ref = FALSE
    /\ definition_registry = EmptyReg
    /\ reglog = {}
    /\ parameter_registry = EmptyReg
    /\ response_registry = EmptyReg
    /\ NotGenerating
    /\ arg = <<>>
    /\ ret = <<>>
    /\ err = NoErr

\* the state after a call of from_path
PathCalled(r) ==
    /\ SetRegistries(r.h)
    /\ err' = r.err
    /\ ret' = IF r.err = NoErr THEN <<r.ret>> ELSE <<>>
    /\ pc' = IF r.err = NoErr THEN "returned" ELSE "raised"

CallFromPath(path) ==
    /\ pc = "idle"
    /\ PathCalled(ParamsFromComponents(SplitPath(path), param_ref, Registries))
    /\ arg' = path
    /\ UNCHANGED handlerVars
    /\ UNCHANGED generateVars

NextPath == \E path \in PathsOf(MaxSegments) : CallFromPath(path)

SpecPath == InitPath /\ [][NextPath]_vars

(***************************************************************************)
(* Claims on ParameterHandler.from_path                                    *)
(***************************************************************************)
\* a segment entirely wrapped in braces
Braced(seg) == Len(seg) >= 2 /\ seg[1] = "{" /\ seg[Len(seg)] = "}"

BracedSegments(path) == SelectSeq(path, Braced)

\* the required string parameter in path named after a braced segment
PathParameter(seg) ==
    Param(Str(SubSeq(seg, 2, Len(seg) - 1)), "path", "true", "string", <<>>, "")

\* C11 as stated: from_path returns exactly one parameter per brace-delimited
\* segment, in left-to-right order, each named after its segment, in path,
\* required and typed string; other segments yield no parameter.
C11_OneParameterPerSegment ==
    pc = "returned" =>
        ret[1] = [i \in 1 .. Len(BracedSegments(arg)) |->
                      PathParameter(BracedSegments(arg)[i])]

\* C11 amended: without reference mode the list is as stated and the
\* parameter registry is left empty; in reference mode the list holds, per
\* braced segment and in order, {"$ref": "#/parameters/<name>"} and the
\* registry holds the parameter under <name>, for these names only.
C11_OneParameterPerSegment_Amended ==
    pc = "returned" =>
        LET braced == BracedSegments(arg)
        IN  /\ Len(ret[1]) = Len(braced)
            /\ ~param_ref =>
                   /\ \A i \in 1 .. Len(braced) : ret[1][i] = PathParameter(braced[i])
                   /\ parameter_registry = EmptyReg
            /\ param_ref =>
                   /\ \A i \in 1 .. Len(braced) :
                          /\ ret[1][i] =
                                 ParamRef("#/parameters/" \o PathParameter(braced[i]).name)
                          /\ PathParameter(braced[i]).name \in DOMAIN parameter_registry
                          /\ parameter_registry[PathParameter(braced[i]).name] =
                                 PathParameter(braced[i])
                   /\ DOMAIN parameter_registry =
                          {PathParameter(braced[i]).name : i \in 1 .. Len(braced)}

\* /{id}/{o} without and with reference mode
C11_Witness ==
    /\ pc = "returned"
    /\ arg = <<<<"{", "i", "d", "}">>, <<"{", "o", "}">>>>
    /\ Len(ret[1]) = 2
    /\ ~param_ref
    /\ ret[1][1].name = "id" /\ ret[1][2].name = "o"


(***************************************************************************)
(* SpecBase: generate() over services and views that have tags, with a     *)
(* base document or an info given, and a content type that is ignored      *)
(***************************************************************************)
TextXml == "text/xml"

\* the services tried: the tags of a service are those of its path
BaseServices == {[path |-> "/jobs", tags |-> <<"jobs", "admin">>],
                 [path |-> "/jobs/{job_id}", tags |-> <<>>]}

BaseViews ==
    {View("GET", "json", <<>>, <<>>, <<<<[status |-> "200", schema |-> OkResponse]>>>>,
          <<<<"status", "jobs">>>>),
     View("POST", "", <<<<"application/json">>>>, <<PostSchema>>, <<>>, <<<<"legacy">>>>),
     View("POST", "", <<<<TextXml>>>>, <<PostSchema>>, <<>>, <<<<"xml">>>>),
     View("head", "", <<>>, <<>>, <<>>, <<<<"head">>>>),
     View("OPTIONS", "", <<>>, <<>>, <<>>, <<>>)}

\* a definition and an operation a base document holds
LegacyDefinition ==
    Frag("object", "Legacy", "", <<>>, <<>>, <<>>, "", <<>>, "")

BaseOperation ==
    Operation("default" :> Response("", "described by hand", <<>>, <<>>, EmptyReg, ""),
              <<>>, <<>>, <<>>, <<>>, <<<<"by hand">>>>)

\* a base document with an info, a basePath, tags, a path and a definition
BaseDoc ==
    BaseDocument(<<Info("Jobs API", "1.0", "the jobs")>>, "/api",
                 <<<<[name |-> "legacy", description |-> "kept"],
                     [name |-> "by hand", description |-> ""]>>>>,
                 ("/jobs" :> [parameters |-> <<>>,
                              ops |-> ("post" :> BaseOperation) @@ ("delete" :> BaseOperation)])
                 @@ ("/health" :> [parameters |-> <<>>, ops |-> ("get" :> BaseOperation)]),
                 "Legacy" :> LegacyDefinition)

\* the arguments of the calls tried
BaseKwargs ==
    {NoKwargs,
     Kwargs("", "", "", <<>>, <<BaseDoc>>),
     Kwargs("Other API", "2.0", "/v2", <<>>, <<BaseDoc>>),
     Kwargs("", "", "", <<Info("Given API", "0.1", "given")>>, <<>>)}

InitBase ==
    /\ pc = "idle"
    /\ ref = 0
    /\ param_ref = FALSE
    /\ resp_ref = FALSE
    /\ definition_registry = EmptyReg
    /\ reglog = {}
    /\ parameter_registry = EmptyReg
    /\ response_registry = EmptyReg
    /\ openapi_spec = 3
    /\ converter_spec = 0
    /\ service = NoService
    /\ path_obj = EmptyPathObj
    /\ paths = EmptyReg
    /\ tags = <<>>
    /\ visited = <<>>
    /\ hist = {}
    /\ nviews = 0
    /\ ignored_ctypes \in {ignore_ctypes, {TextXml}}
    /\ swagger_info = NoInfo
    /\ kwargs = NoKwargs
    /\ ignored = {}
    /\ prev = <<>>
    /\ other = NoOther
    /\ arg = <<>>
    /\ ret = <<>>
    /\ err = NoErr

NextBase ==
    \/ \E version \in {<<2>>, <<3, 0, 0>>}, kw \in BaseKwargs : generate(version, kw)
    \/ \E s \in BaseServices : BeginService(s)
    \/ \E view \in BaseViews : ProcessView(view)
    \/ EndService
    \/ Finish

SpecBase == InitBase /\ [][NextBase]_vars

(***************************************************************************)
(* Claims on the views ignored, the root tags and the base document        *)
(***************************************************************************)
\* a view the instance is to ignore: by its method, whatever its case, or
\* by one of the content types it declares
ToBeIgnored(view) ==
    \/ view.method \in {"HEAD", "head", "Head", "OPTIONS", "options", "Options"}
    \/ /\ view.content_type # <<>>
       /\ \E i \in 1 .. Len(view.content_type[1]) : view.content_type[1][i] \in ignored_ctypes

\* the operation of a view that is alone for its method, but for its tags
OperationAlone(view) ==
    [_extract_operation_from_view(view, ref, param_ref, resp_ref,
                                  Handlers(EmptyReg, {}, EmptyReg, EmptyReg)).ret
        EXCEPT !.tags = <<>>]

\* C17: a view whose method is ignored (whatever its case) or which declares
\* an ignored content type gets no operation and meets none, so that it
\* takes no part in the duplicate-method and conflict checks: an error of
\* these checks has two views that are not ignored; under version 2 the
\* operation of a method of the service is the one of its only view that is
\* not ignored
C17_IgnoredViews ==
    /\ \A a \in hist : ~ToBeIgnored(a.view)
    /\ \A e \in ignored : ToBeIgnored(e.view)
    /\ pc = "views" =>
          \A method \in DOMAIN path_obj.ops :
              \E a \in hist : a.svc = Len(visited) /\ a.method = method
    /\ err \in {"DuplicateMethod", "ConflictingContentType"} =>
          \E a, b \in hist : a.idx # b.idx /\ a.svc = b.svc /\ a.method = b.method
    /\ (pc = "views" /\ openapi_spec = 2) =>
          \A a \in hist :
              a.svc = Len(visited) =>
                  /\ a.method \in DOMAIN path_obj.ops
                  /\ [path_obj.ops[a.method] EXCEPT !.tags = <<>>] = OperationAlone(a.view)

\* under version 2 a service had two views for POST, the first of them
\* ignored for its content type, and the call returned the operation of
\* the second
C17_Witness ==
    /\ pc = "returned"
    /\ openapi_spec = 2
    /\ \E a \in hist, e \in ignored :
          /\ e.by = "ctype" /\ e.svc = a.svc /\ e.method = a.method /\ e.idx < a.idx
          /\ a.path \in DOMAIN ret[1].paths
          /\ a.method \in DOMAIN ret[1].paths[a.path].ops
          /\ ret[1].paths[a.path].ops[a.method].consumes = a.view.content_type

\* the tags of the service of a path
ServiceTagsOf(path) == (CHOOSE s \in BaseServices : s.path = path).tags

RECURSIVE TagsOfViews(_, _)
\* the tags of the operations of the k-th service, from the i-th view on
TagsOfViews(k, i) ==
    IF i > nviews THEN <<>>
    ELSE (IF \E a \in hist : a.idx = i /\ a.svc = k
          THEN LET a == CHOOSE b \in hist : b.idx = i /\ b.svc = k
               IN  IF a.view.tags = <<>> THEN <<>> ELSE a.view.tags[1]
          ELSE <<>>)
         \o TagsOfViews(k, i + 1)

RECURSIVE ExtractedTags(_)
\* the tags met from the k-th service on: those of a service, then those of
\* its operations
ExtractedTags(k) ==
    IF k > Len(visited) THEN <<>>
    ELSE ServiceTagsOf(visited[k]) \o TagsOfViews(k, 1) \o ExtractedTags(k + 1)

RECURSIVE FirstSeen(_, _)
\* names without those in seen and without repetition, in their order
FirstSeen(names, seen) ==
    IF names = <<>> THEN <<>>
    ELSE IF Head(names) \in seen THEN FirstSeen(Tail(names), seen)
    ELSE <<Head(names)>> \o FirstSeen(Tail(names), seen \cup {Head(names)})

\* the tags of the base document of the call
BaseTags == IF BaseOf(kwargs).tags = <<>> THEN <<>> ELSE BaseOf(kwargs).tags[1]

\* C15: the root tags of the document are the tags of the base document,
\* then the tags of the services and of the operations of the views that
\* are not ignored, in the order they were first seen (those of a service
\* before those of its operations), without the names the base document has
\* and without a name twice
C15_RootTags ==
    pc = "returned" =>
        /\ Len(ret[1].tags) >= Len(BaseTags)
        /\ SubSeq(ret[1].tags, 1, Len(BaseTags)) = BaseTags
        /\ [i \in 1 .. Len(ret[1].tags) - Len(BaseTags) |->
               ret[1].tags[Len(BaseTags) + i].name]
           = FirstSeen(ExtractedTags(1), {BaseTags[j].name : j \in 1 .. Len(BaseTags)})

\* a call with a base document that has the tag "legacy" returned after
\* the service with tags and a view with the tags "status" and "jobs", and
\* a view with the tag "legacy"
C15_Witness ==
    /\ pc = "returned"
    /\ BaseTags # <<>>
    /\ \E a, b \in hist :
          /\ a.svc = b.svc /\ a.idx < b.idx
          /\ service.tags = <<"jobs", "admin">>
          /\ a.view.tags = <<<<"status", "jobs">>>>
          /\ b.view.tags = <<<<"legacy">>>>
    /\ [i \in 1 .. Len(ret[1].tags) |-> ret[1].tags[i].name]
       = <<"legacy", "by hand", "jobs", "admin", "status">>

\* C16: the info and the basePath of a base document given to generate()
\* are those of the document returned unless title, version, info or
\* base_path is given, the title and version of an info given are kept
\* unless title or version is given, and the paths and definitions of the
\* base document are merged with the generated ones
C16_BaseDocumentKept ==
    pc = "returned" =>
        /\ (kwargs.swagger # <<>> /\ kwargs.info = <<>> /\ kwargs.title = ""
              /\ kwargs.version = "" /\ kwargs.swagger[1].info # <<>>)
           => ret[1].info = kwargs.swagger[1].info[1]
        /\ (kwargs.swagger # <<>> /\ kwargs.base_path = "" /\ kwargs.swagger[1].basePath # "")
           => ret[1].basePath = kwargs.swagger[1].basePath
        /\ (kwargs.info # <<>> /\ kwargs.title = "" /\ kwargs.version = "")
           => ret[1].info = kwargs.info[1]
        /\ kwargs.swagger # <<>> =>
              /\ \A path \in DOMAIN kwargs.swagger[1].paths :
                    /\ path \in DOMAIN ret[1].paths
                    /\ \A method \in DOMAIN kwargs.swagger[1].paths[path].ops :
                          /\ method \in DOMAIN ret[1].paths[path].ops
                          /\ ret[1].paths[path].ops[method].responses["default"]
                             = kwargs.swagger[1].paths[path].ops[method].responses["default"]
              /\ \A path \in DOMAIN paths :
                    /\ path \in DOMAIN ret[1].paths
                    /\ DOMAIN paths[path].ops \subseteq DOMAIN ret[1].paths[path].ops
              /\ \A name \in DOMAIN kwargs.swagger[1].definitions :
                    /\ name \in DOMAIN ret[1].definitions
                    /\ ret[1].definitions[name] = kwargs.swagger[1].definitions[name]
              /\ DOMAIN definition_registry \subseteq DOMAIN ret[1].definitions


(***************************************************************************)
(* SpecAgain: one CorniceSwagger used for several calls, of generate() or  *)
(* of from_schema on its DefinitionHandler, one after the other            *)
(***************************************************************************)
\* calls made on the instance
MaxCalls == 2

AgainViews ==
    {View("GET", "json", <<>>, <<>>, <<<<[status |-> "200", schema |-> OkResponse]>>>>, <<>>),
     View("GET", "json", <<>>, <<>>,
          <<<<[status |-> "200", schema |-> OkResponse],
              [status |-> "404", schema |-> UndescribedResponse]>>>>, <<>>),
     View("POST", "", <<<<"application/json">>>>, <<PostSchema>>, <<>>, <<>>)}

AgainNodes == {JobStatusInfo, PostSchema}

\* the service list of the instance: one service, or none
AgainServices == {[path |-> "/jobs/{job_id}", tags |-> <<>>]}

InitAgain ==
    /\ pc = "idle"
    /\ ref = 1
    /\ param_ref = TRUE
    /\ resp_ref = TRUE
    /\ definition_registry = EmptyReg
    /\ reglog = {}
    /\ parameter_registry = EmptyReg
    /\ response_registry = EmptyReg
    /\ NotGenerating
    /\ arg = <<>>
    /\ ret = <<>>
    /\ err = NoErr

\* the views the call has met, in their order: those that got an operation
\* and those that were ignored
Trace == {[idx |-> a.idx, svc |-> a.svc, view |-> a.view] : a \in hist \cup ignored}

\* the call that ended: what it was given, what it did and what it left
CallRecord ==
    [call |-> IF pc = "converted" THEN "from_schema" ELSE "generate",
     pc |-> pc, arg |-> arg, kwargs |-> kwargs, visited |-> visited, trace |-> Trace,
     ret |-> ret, err |-> err, registries |-> Registries]

\* self.definitions.from_schema(schema_node) on the handler of the instance
FromSchemaOnInstance(schema_node) ==
    /\ pc = "idle"
    /\ LET r == from_schema(schema_node, NoneName, ref, definition_registry, reglog)
       IN  /\ definition_registry' = r.reg
           /\ reglog' = r.log
           /\ err' = r.err
           /\ ret' = IF r.err = NoErr THEN <<r.ret>> ELSE <<>>
           /\ pc' = "converted"
    /\ arg' = [node |-> schema_node, base_name |-> NoneName]
    /\ UNCHANGED <<ref, param_ref, resp_ref, parameter_registry, response_registry>>
    /\ UNCHANGED generateVars

\* the call has ended, by a return or by an exception, and the instance is
\* used again: the locals of the call are gone, the attributes of the
\* instance and of the classes are what the call left
Reuse ==
    /\ pc \in {"returned", "raised", "converted"}
    /\ Len(prev) + 1 < MaxCalls
    /\ prev' = Append(prev, CallRecord)
    /\ pc' = "idle"
    /\ service' = NoService
    /\ path_obj' = EmptyPathObj
    /\ paths' = EmptyReg
    /\ tags' = <<>>
    /\ visited' = <<>>
    /\ hist' = {}
    /\ nviews' = 0
    /\ ignored' = {}
    /\ kwargs' = NoKwargs
    /\ arg' = <<>>
    /\ ret' = <<>>
    /\ err' = NoErr
    /\ UNCHANGED <<openapi_spec, converter_spec, swagger_info, ignored_ctypes, other>>
    /\ UNCHANGED handlerVars
    /\ UNCHANGED registryVars

\* the services of the list the call has not visited
ServicesLeft == {s \in AgainServices : \A i \in 1 .. Len(visited) : visited[i] # s.path}

\* the views of the service the call has not met: a service has a view once
ViewsLeft == {view \in AgainViews : \A a \in Trace : a.svc = Len(visited) => a.view # view}

NextAgain ==
    \/ \E version \in {<<2>>, <<3, 0, 0>>} : generate(version, NoKwargs)
    \/ \E s \in ServicesLeft : BeginService(s)
    \/ \E view \in ViewsLeft : ProcessView(view)
    \/ EndService
    \/ Finish
    \/ \E schema_node \in AgainNodes : FromSchemaOnInstance(schema_node)
    \/ Reuse

SpecAgain == InitAgain /\ [][NextAgain]_vars

(***************************************************************************)
(* Claims on an instance used again                                        *)
(***************************************************************************)
NoRegistries == Handlers(EmptyReg, {}, EmptyReg, EmptyReg)

RECURSIVE FreshViews(_, _, _)
\* the registries after the views of the k-th service of the call, from
\* the i-th view of the call on, entered with the registries h
FreshViews(k, i, h) ==
    IF i > nviews THEN h
    ELSE FreshViews(k, i + 1,
                    IF \E a \in Trace : a.idx = i /\ a.svc = k
                    THEN ViewStep((CHOOSE a \in Trace : a.idx = i /\ a.svc = k).view,
                                  openapi_spec, EmptyPathObj, <<>>, <<>>, h).h
                    ELSE h)

RECURSIVE FreshServices(_, _)
\* the registries after the services of the call from the k-th on
FreshServices(k, h) ==
    IF k > Len(visited) THEN h
    ELSE FreshServices(k + 1, FreshViews(k, 1, from_path(visited[k], param_ref, h).h))

\* the three sections of the document hold entries of the registries only
OnlyEntriesOf(document, h) ==
    /\ DOMAIN document.definitions \subseteq DOMAIN h.defs
    /\ DOMAIN document.parameters \subseteq DOMAIN h.params
    /\ DOMAIN document.responses \subseteq DOMAIN h.resps

\* C12: the definitions, parameters and responses of the document a call of
\* generate() returns are entries made for the services and views of that
\* call, as registries that were empty at its start would hold them, whatever
\* the instance was used for before
C12_FreshRegistries ==
    (pc = "returned" /\ \A i \in 1 .. Len(prev) : prev[i].call = "generate")
    => OnlyEntriesOf(ret[1], FreshServices(1, NoRegistries))

\* C13: a call of from_schema or of generate() that follows the same call
\* (same arguments, same services and views) on the same instance returns
\* what the first returned and leaves the registries the first left
C13_Idempotent ==
    (/\ prev # <<>>
     /\ pc \in {"returned", "converted"}
     /\ prev[Len(prev)].pc = pc
     /\ prev[Len(prev)].err = NoErr
     /\ err = NoErr
     /\ prev[Len(prev)].arg = arg
     /\ prev[Len(prev)].kwargs = kwargs
     /\ prev[Len(prev)].visited = visited
     /\ prev[Len(prev)].trace = Trace)
    => /\ ret = prev[Len(prev)].ret
       /\ Registries = prev[Len(prev)].registries

\* generate() was called twice over the service /jobs/{job_id} with a GET
\* and a POST view, and returned twice
C13_Witness ==
    /\ prev # <<>>
    /\ pc = "returned"
    /\ prev[Len(prev)].pc = "returned"
    /\ prev[Len(prev)].arg = arg
    /\ prev[Len(prev)].visited = visited
    /\ prev[Len(prev)].trace = Trace
    /\ visited = <<"/jobs/{job_id}">>
    /\ Cardinality(hist) = 2
    /\ DOMAIN definition_registry # {}
    /\ "job_id" \in DOMAIN parameter_registry
    /\ "OkResponse" \in DOMAIN response_registry


(***************************************************************************)
(* SpecTwo: two CorniceSwagger instances, each with its own handlers and   *)
(* registries, whose calls of generate() are interleaved. The variables of *)
(* Spec are the first instance; `other` is the second, which has no        *)
(* services. The classes are shared: the converters (converter_spec) and   *)
(* the dict CorniceSwagger.swagger["info"] (swagger_info)                  *)
(***************************************************************************)
TwoKwargs == {NoKwargs, Kwargs("First API", "1.0", "", <<>>, <<>>)}

OtherTitles == {"", "Second API"}

TwoViews ==
    {View("GET", "json", <<>>, <<>>, <<<<[status |-> "200", schema |-> OkResponse]>>>>, <<>>),
     View("POST", "", <<<<"application/json">>>>, <<PostSchema>>, <<>>, <<>>)}

InitTwo ==
    /\ pc = "idle"
    /\ ref = 0
    /\ param_ref = FALSE
    /\ resp_ref = FALSE
    /\ definition_registry = EmptyReg
    /\ reglog = {}
    /\ parameter_registry = EmptyReg
    /\ response_registry = EmptyReg
    /\ openapi_spec = 3
    /\ converter_spec = 0
    /\ service = NoService
    /\ path_obj = EmptyPathObj
    /\ paths = EmptyReg
    /\ tags = <<>>
    /\ visited = <<>>
    /\ hist = {}
    /\ nviews = 0
    /\ ignored_ctypes = ignore_ctypes
    /\ swagger_info = NoInfo
    /\ kwargs = NoKwargs
    /\ ignored = {}
    /\ prev = <<>>
    /\ other = [NoOther EXCEPT !.pc = "idle"]
    /\ arg = <<>>
    /\ ret = <<>>
    /\ err = NoErr

\* the variables of the first instance, and those of its call
firstVars == <<pc, ref, param_ref, resp_ref, definition_registry, reglog, parameter_registry,
               response_registry, openapi_spec, service, path_obj, paths, tags, visited,
               hist, nviews, ignored_ctypes, kwargs, ignored, prev, arg, ret, err>>

\* generate(title=title, openapi_spec=version) on the second instance, up
\* to the call of _build_paths: self.openapi_spec, the setattr on the two
\* converter classes and the update of the info dict of the class
OtherGenerate(version, title) ==
    /\ other.pc = "idle"
    /\ other' = [other EXCEPT !.pc = "running", !.openapi_spec = version[1],
                              !.title = title]
    /\ converter_spec' = version[1]
    /\ swagger_info' = InfoUpdated(swagger_info, Kwargs(title, "", "", <<>>, <<>>))
    /\ UNCHANGED firstVars

\* generate() on the second instance, from _build_paths to the return: the
\* info of the document is the info dict of the class
OtherFinish ==
    /\ other.pc = "running"
    /\ other' = [other EXCEPT !.pc = "returned", !.info = swagger_info]
    /\ UNCHANGED <<converter_spec, swagger_info>>
    /\ UNCHANGED firstVars

NextTwo ==
    \/ \E version \in {<<2>>, <<3, 0, 0>>}, kw \in TwoKwargs : generate(version, kw)
    \/ \E s \in Services : BeginService(s)
    \/ \E view \in TwoViews : ProcessView(view)
    \/ EndService
    \/ Finish
    \/ \E version \in {<<2>>, <<3, 0, 0>>}, title \in OtherTitles :
           OtherGenerate(version, title)
    \/ OtherFinish

SpecTwo == InitTwo /\ [][NextTwo]_vars

(***************************************************************************)
(* Claims on two instances                                                 *)
(***************************************************************************)
\* C14: with one instance per caller, a call of generate() that is running
\* finds its own version on the converters, and the document it returns is
\* the one it returns when it runs alone, however the calls of the two
\* instances are interleaved
C14_InstancesIsolated ==
    /\ pc \in {"services", "views"} => converter_spec = openapi_spec
    /\ other.pc = "running" => converter_spec = other.openapi_spec
    /\ pc = "returned" =>
          ret[1] = Document(openapi_spec, kwargs, InfoUpdated(NoInfo, kwargs), paths, tags,
                            Registries)
    /\ other.pc = "returned" =>
          other.info = InfoUpdated(NoInfo, Kwargs(other.title, "", "", <<>>, <<>>))


(***************************************************************************)
(* SpecDefs: one DefinitionHandler and several calls of from_schema, one   *)
(* after the other, on nodes that resolve to the same names                *)
(***************************************************************************)
\* the nodes converted: one level of nesting, with and without titles
CollidingNodes == Nodes(1)

InitDefs ==
    /\ pc = "idle"
    /\ ref \in {-1, 1, 2}
    /\ param_ref = FALSE
    /\ resp_ref = FALSE
    /\ definition_registry = EmptyReg
    /\ reglog = {}
    /\ parameter_registry = EmptyReg
    /\ response_registry = EmptyReg
    /\ NotGenerating
    /\ arg = <<>>
    /\ ret = <<>>
    /\ err = NoErr

NextDefs ==
    \/ \E schema_node \in CollidingNodes : FromSchemaOnInstance(schema_node)
    \/ Reuse

SpecDefs == InitDefs /\ [][NextDefs]_vars

(***************************************************************************)
(* Claims on several calls of from_schema                                  *)
(***************************************************************************)
RECURSIVE Pointers(_)
\* the pointers that occur in a fragment
Pointers(schema) ==
    (IF IsRef(schema) THEN {schema.ref} ELSE {})
    \cup UNION {Pointers(part) : part \in Parts(schema)}

\* the pointers name keys of the registry
Resolved(pointers, reg) ==
    \A pointer \in pointers : \E name \in DOMAIN reg : pointer = json_pointer \o name

\* the registry holds the entries of the call, and under the other names
\* the entries it held before the call
Overlaid(reg, written, before) ==
    /\ DOMAIN reg = DOMAIN written \cup DOMAIN before
    /\ \A name \in DOMAIN reg :
          reg[name] = IF name \in DOMAIN written THEN written[name] ELSE before[name]

\* the definition registry the last call found
RegistryBefore == IF prev = <<>> THEN EmptyReg ELSE prev[Len(prev)].registries.defs

\* C27: after from_schema calls that all returned, every pointer returned
\* by the last call or held in a registry entry names a key of the
\* definition registry, and the registry has one entry per name: the one
\* the last call registered for the names it resolved, as a handler that
\* was empty would hold it, and the earlier entry for the other names
C27_ReferentialIntegrity ==
    (/\ pc = "converted"
     /\ err = NoErr
     /\ \A i \in 1 .. Len(prev) : prev[i].err = NoErr)
    => /\ Resolved(Pointers(ret[1]), definition_registry)
       /\ \A name \in DOMAIN definition_registry :
             Resolved(Pointers(definition_registry[name]), definition_registry)
       /\ Overlaid(definition_registry,
                   from_schema(arg.node, NoneName, ref, EmptyReg, {}).reg,
                   RegistryBefore)

\* a second call returned a pointer to "Obj" for an object that differs
\* from the one the first call registered under that name
C27_Witness ==
    /\ pc = "converted"
    /\ err = NoErr
    /\ prev # <<>>
    /\ prev[Len(prev)].err = NoErr
    /\ ret = <<RefFrag("#/definitions/Obj")>>
    /\ "Obj" \in DOMAIN RegistryBefore
    /\ RegistryBefore["Obj"] # definition_registry["Obj"]
    /\ definition_registry["Obj"] = type_converter(arg.node)


(***************************************************************************)
(* SpecParam: one ParameterHandler with its DefinitionHandler, and a call  *)
(* of from_schema on a request schema or of from_path                      *)
(***************************************************************************)
\* the body of a request schema: none, a class of its own, a class that is
\* named body, a body with a nested object
RequestBodyNodes ==
    {<<>>,
     <<JobRequest>>,
     <<MappingNode("body", "body", "", <<StringNode("name", "", "unset", "unset", "")>>)>>,
     <<MappingNode("JobOrder", "body", "",
                   <<MappingNode("Job", "job", "Job",
                                 <<StringNode("name", "", "unset", "unset", "")>>)>>)>>}

\* the other children of a request schema: groups of parameters by
\* location, two of them with a parameter of the same name, and a child
\* that is no location
RequestGroups ==
    {<<>>,
     <<MappingNode("QuerySchema", "querystring", "",
                   <<StringNode("verbose", "", "drop", "unset", "")>>)>>,
     <<MappingNode("PathSchema", "path", "",
                   <<StringNode("job_id", "", "unset", "unset", "")>>),
       MappingNode("HeaderSchema", "headers", "",
                   <<StringNode("X-Token", "", "unset", "unset", ""),
                     StringNode("verbose", "", "drop", "unset", "")>>)>>,
     <<MappingNode("QuerySchema", "GET", "",
                   <<StringNode("verbose", "", "drop", "unset", "")>>),
       MappingNode("HeaderSchema", "header", "",
                   <<StringNode("verbose", "", "unset", "unset", "")>>)>>,
     <<MappingNode("CookieSchema", "cookies", "",
                   <<StringNode("session", "", "unset", "unset", "")>>)>>}

RequestSchemas ==
    {MappingNode("RequestSchema", "", "", b \o g) : b \in RequestBodyNodes, g \in RequestGroups}

InitParam ==
    /\ pc = "idle"
    /\ ref \in Depths
    /\ param_ref \in BOOLEAN
    /\ resp_ref = FALSE
    /\ definition_registry = EmptyReg
    /\ reglog = {}
    /\ parameter_registry = EmptyReg
    /\ response_registry = EmptyReg
    /\ NotGenerating
    /\ arg = <<>>
    /\ ret = <<>>
    /\ err = NoErr

\* self.parameters.from_schema(schema_node)
CallParametersFromSchema(schema_node) ==
    /\ pc = "idle"
    /\ PathCalled(ParametersFromSchema(schema_node, ref, param_ref, Registries))
    /\ arg' = [call |-> "from_schema", node |-> schema_node]
    /\ UNCHANGED handlerVars
    /\ UNCHANGED generateVars

\* self.parameters.from_path(path)
CallParametersFromPath(path) ==
    /\ pc = "idle"
    /\ PathCalled(from_path(path, param_ref, Registries))
    /\ arg' = [call |-> "from_path", path |-> path]
    /\ UNCHANGED handlerVars
    /\ UNCHANGED generateVars

NextParam ==
    \/ \E schema_node \in RequestSchemas : CallParametersFromSchema(schema_node)
    \/ \E path \in {"/jobs", "/jobs/{job_id}"} : CallParametersFromPath(path)

SpecParam == InitParam /\ [][NextParam]_vars

(***************************************************************************)
(* Claims on ParameterHandler.from_schema                                  *)
(***************************************************************************)
\* the pointer names a key of the parameter registry
Registered(param) ==
    \E name \in DOMAIN parameter_registry : param.ref = parameter_pointer \o name

\* the parameter a returned parameter stands for: itself, or the registry
\* entry its pointer names
Resolve(param) ==
    IF param.ref = "" THEN param
    ELSE parameter_registry[CHOOSE name \in DOMAIN parameter_registry :
                                param.ref = parameter_pointer \o name]

\* the children named body of the request schema
BodyChildren(schema_node) == SelectSeq(schema_node.children, LAMBDA c : c.name = "body")

\* the name of the body parameter of the request schema
BodyName(schema_node) ==
    IF BodyChildren(schema_node)[1].cls = "body" THEN schema_node.cls \o "Body"
    ELSE BodyChildren(schema_node)[1].cls

\* the indices of the body parameters in the list returned
BodyIndices ==
    {i \in 1 .. Len(ret[1]) :
        (ret[1][i].ref = "" \/ Registered(ret[1][i])) /\ Resolve(ret[1][i]).in = "body"}

\* C22: from_schema returns one body parameter for a child named body, and
\* with a non-zero definition depth its schema is the $ref to the definition
\* the DefinitionHandler registered for the body, with and without
\* parameter reference mode
C22_BodyThroughDefinitions ==
    (pc = "returned" /\ arg.call = "from_schema" /\ BodyChildren(arg.node) # <<>>) =>
        /\ Cardinality(BodyIndices) = 1
        /\ \A i \in BodyIndices :
              /\ Resolve(ret[1][i]).name = BodyName(arg.node)
              /\ ref # 0 =>
                    /\ Resolve(ret[1][i]).schema
                       = <<RefFrag(json_pointer \o BodyName(arg.node))>>
                    /\ BodyName(arg.node) \in DOMAIN definition_registry

\* the parameters a request schema or a path converts to, in order
RECURSIVE Converted(_)
Converted(children) ==
    IF children = <<>> THEN <<>>
    ELSE (IF Head(children).name \in {"path", "header", "headers", "querystring", "GET"}
          THEN [i \in 1 .. Len(Head(children).children) |->
                    parameter_converter(Head(children).name, Head(children).children[i])]
          ELSE IF Head(children).name = "body"
          THEN <<[parameter_converter("body", Head(children))
                     EXCEPT !.name = IF Head(children).cls = "body" THEN "RequestSchemaBody"
                                     ELSE Head(children).cls]>>
          ELSE <<>>)
         \o Converted(Tail(children))

\* the parameters of the call, converted
ConvertedOfCall ==
    IF arg.call = "from_schema" THEN Converted(arg.node.children)
    ELSE IF arg.path = "/jobs/{job_id}"
    THEN <<Param("job_id", "path", "true", "string", <<>>, "")>>
    ELSE <<>>

\* C23: with parameter reference mode, every parameter from_schema and
\* from_path return is {"$ref": "#/parameters/<name>"} and the registry
\* holds the converted parameter under <name>, a body parameter with the
\* $ref of the DefinitionHandler as its schema when the definition depth
\* is not zero; without reference mode the parameter registry is not
\* modified
C23_ParametersByReference ==
    pc = "returned" =>
        /\ ~param_ref => parameter_registry = EmptyReg
        /\ param_ref =>
              /\ Len(ret[1]) = Len(ConvertedOfCall)
              /\ \A i \in 1 .. Len(ret[1]) :
                    /\ ret[1][i] = ParamRef(parameter_pointer \o ConvertedOfCall[i].name)
                    /\ ConvertedOfCall[i].name \in DOMAIN parameter_registry
                    /\ parameter_registry[ConvertedOfCall[i].name]
                       = IF ConvertedOfCall[i].in = "body" /\ ref # 0
                         THEN [ConvertedOfCall[i] EXCEPT !.schema =
                                   <<RefFrag(json_pointer \o ConvertedOfCall[i].name)>>]
                         ELSE ConvertedOfCall[i]

(***************************************************************************)
(* SpecOas3: one call of generate() under version 3 over views that        *)
(* declare two request content types, none, and a documented "default"     *)
(* response; each service is visited once                                  *)
(***************************************************************************)
Oas3Views ==
    {View("POST", "", <<<<"application/json", "text/xml">>>>, <<PostSchema>>, <<>>, <<>>),
     View("POST", "", <<>>, <<PostSchema>>, <<>>, <<>>),
     View("GET", "json", <<>>, <<>>, <<<<[status |-> "200", schema |-> OkResponse]>>>>, <<>>),
     View("GET", "xml", <<>>, <<>>,
          <<<<[status |-> "default", schema |-> OkResponse]>>>>, <<>>)}

\* the services of self.services the loop has not reached
Oas3ServicesLeft == {s \in Services : \A i \in 1 .. Len(visited) : visited[i] # s.path}

NextOas3 ==
    \/ generate(<<3, 0, 0>>, NoKwargs)
    \/ \E s \in Oas3ServicesLeft : BeginService(s)
    \/ \E view \in Oas3Views : ProcessView(view)
    \/ EndService
    \/ Finish

SpecOas3 == Init /\ [][NextOas3]_vars

\* the views that gave the operation of (path, method)
ViewsOf(path, method) == {a.view : a \in {b \in hist : b.path = path /\ b.method = method}}

\* the request content types a view declares for its body: those of its
\* content_type argument, the default content type when it has none
RequestTypes(view) ==
    IF \A i \in 1 .. Len(view.schema) :
           \A j \in 1 .. Len(view.schema[i].children) :
               view.schema[i].children[j].name # "body"
    THEN {}
    ELSE IF view.content_type = <<>> THEN {default_content_type}
    ELSE {view.content_type[1][i] : i \in 1 .. Len(view.content_type[1])}

\* the statuses for which a view documents a response with a body
DocumentedBodies(view) ==
    IF view.response_schemas = <<>> THEN {}
    ELSE {view.response_schemas[1][i].status :
              i \in {j \in 1 .. Len(view.response_schemas[1]) :
                        \E k \in 1 .. Len(view.response_schemas[1][j].schema.children) :
                            view.response_schemas[1][j].schema.children[k].name = "body"}}

\* a parameter of an operation that is a body, inline or through its
\* pointer into the parameters section (a body holds a schema)
IsBodyParameter(param, parameters) ==
    \/ param.in = "body"
    \/ param.schema # <<>>
    \/ /\ param.ref # ""
       /\ \E k \in DOMAIN parameters :
              /\ parameter_pointer \o k = param.ref
              /\ (parameters[k].in = "body" \/ parameters[k].schema # <<>>)

\* an operation in the shape of version 3, given the views that gave it
Oas3Shape(op, views, parameters) ==
    /\ op.consumes = <<>>
    /\ op.produces = <<>>
    /\ \A i \in 1 .. Len(op.parameters) :
           \A j \in 1 .. Len(op.parameters[i]) :
               ~IsBodyParameter(op.parameters[i][j], parameters)
    /\ LET types == UNION {RequestTypes(view) : view \in views}
       IN  IF types = {} THEN op.requestBody = <<>>
           ELSE op.requestBody # <<>> /\ DOMAIN op.requestBody[1].content = types
    /\ \A code \in DOMAIN op.responses :
           /\ op.responses[code].schema = <<>>
           /\ code \in UNION {DocumentedBodies(view) : view \in views} =>
                  DOMAIN op.responses[code].content # {}

\* C24: under version 3 every operation of the returned document has no
\* consumes and no produces, no body parameter (inline or through a
\* parameter $ref), its request body under requestBody.content with one
\* entry per declared request content type (the default one when none is
\* declared), and every documented response body under
\* responses[status].content and not as the schema of the response
C24_Oas3Operations ==
    (pc = "returned" /\ openapi_spec = 3) =>
        \A path \in DOMAIN ret[1].paths :
            \A method \in DOMAIN ret[1].paths[path].ops :
                Oas3Shape(ret[1].paths[path].ops[method], ViewsOf(path, method),
                          ret[1].parameters)

\* C26: for every service and every view that is not ignored and that a
\* call of generate() processed without error, the returned document has an
\* operation at paths[path][method]; a later service with the path pattern
\* of an earlier one adds to the path object, so the operations the earlier
\* service gave are still there
C26_NothingLostFromPath ==
    pc = "returned" =>
        \A a \in hist :
            /\ a.path \in DOMAIN ret[1].paths
            /\ a.method \in DOMAIN ret[1].paths[a.path].ops

(***************************************************************************)
(* SpecSkip: one call of generate() on an instance that ignores text/xml,  *)
(* with and without the reference modes                                    *)
(***************************************************************************)
InitSkip ==
    /\ pc = "idle"
    /\ \E s \in Settings : ref = s.ref /\ param_ref = s.param_ref /\ resp_ref = s.resp_ref
    /\ definition_registry = EmptyReg
    /\ reglog = {}
    /\ parameter_registry = EmptyReg
    /\ response_registry = EmptyReg
    /\ openapi_spec = 3
    /\ converter_spec = 0
    /\ service = NoService
    /\ path_obj = EmptyPathObj
    /\ paths = EmptyReg
    /\ tags = <<>>
    /\ visited = <<>>
    /\ hist = {}
    /\ nviews = 0
    /\ ignored_ctypes = {TextXml}
    /\ swagger_info = NoInfo
    /\ kwargs = NoKwargs
    /\ ignored = {}
    /\ prev = <<>>
    /\ other = NoOther
    /\ arg = <<>>
    /\ ret = <<>>
    /\ err = NoErr

NextSkip ==
    \/ \E version \in {<<2>>, <<3, 0, 0>>} : generate(version, NoKwargs)
    \/ \E s \in BaseServices : BeginService(s)
    \/ \E view \in BaseViews : ProcessView(view)
    \/ EndService
    \/ Finish

SpecSkip == InitSkip /\ [][NextSkip]_vars

\* a turn of the loop over the views that skipped its view
ViewSkipped == ignored' # ignored

\* C30: a view that is skipped, for its method or for its content type,
\* leaves the definition, parameter and response registries as they were
C30_SkippedViewWritesNothing ==
    [][ViewSkipped =>
           /\ definition_registry' = definition_registry
           /\ parameter_registry' = parameter_registry
           /\ response_registry' = response_registry]_vars

(***************************************************************************)
(* SpecDefaults: the tags, operationId and security of one operation, from *)
(* the arguments of its view and the defaults of the class                 *)
(***************************************************************************)
\* a value of Python: None (or a key that is absent), a list, a string or a
\* function of (service, method); val is the list, <<the string>> or
\* <<the name of the function>>
Value(kind, val) == [kind |-> kind, val |-> val]

NoValue == Value("none", <<>>)

\* bool(value)
Configured(value) ==
    CASE value.kind = "none" -> FALSE
      [] value.kind = "list" -> value.val # <<>>
      [] value.kind = "str" -> value.val[1] # ""
      [] OTHER -> TRUE

\* the functions of (service, method) tried: two that return a list, one
\* that returns a string
Call(function, s, method) ==
    CASE function = "tags_of" -> Value("list", <<s.path, method>>)
      [] function = "schemes_of" -> Value("list", <<"basic">>)
      [] OTHER -> Value("str", <<method \o s.path>>)

\* op[key] of a default that prevails over the argument of the view
WithDefault_default_first(given, default, s, method) ==
    IF Configured(default)
    THEN IF default.kind = "callable" THEN Call(default.val[1], s, method) ELSE default
    ELSE given

\* op[key] after `if key not in op and default:` for tags and security
WithDefault(given, default, s, method) ==
    IF given.kind = "none" /\ Configured(default)
    THEN IF default.kind = "callable" THEN Call(default.val[1], s, method) ELSE default
    ELSE given

\* op.get(key, [])
GetList(value) == IF value.kind = "none" THEN Value("list", <<>>) ELSE value

\* the tags, operationId and security of the operation
\* _extract_operation_from_view makes of the arguments of a view
ViewOperation(args) ==
    [tags |-> args.tags, operationId |-> args.operation_id, security |-> args.api_security]

\* the operation after its security: an error when it is not a list
CheckedSecurity(op) ==
    IF GetList(op.security).kind # "list"
    THEN [op |-> op, err |-> "security should be a list or callable"]
    ELSE [op |-> op, err |-> NoErr]

\* the operation after its operationId and its security
WithOperationId(op, defaults, s, method) ==
    IF op.operationId.kind = "none" /\ Configured(defaults.op_ids)
       /\ defaults.op_ids.kind # "callable"
    THEN [op |-> op, err |-> "default_op_id should be a callable."]
    ELSE CheckedSecurity(
             [op EXCEPT
                 !.operationId = IF @.kind = "none" /\ Configured(defaults.op_ids)
                                 THEN Call(defaults.op_ids.val[1], s, method)
                                 ELSE @,
                 !.security = WithDefault(@, defaults.security, s, method)])

\* the operation after its tags, given the tags after the default
WithServiceTags(op, op_tags, defaults, s, method) ==
    IF op_tags.kind # "list"
    THEN [op |-> op, err |-> "tags should be a list or callable"]
    ELSE WithOperationId(IF s.tags # <<>>
                         THEN [op EXCEPT !.tags =
                                   Value("list", Deduplicated(s.tags \o op_tags.val))]
                         ELSE op,
                         defaults, s, method)

\* the operation with the tags of the default
TaggedOperation(op, defaults, s, method) ==
    WithServiceTags(op, GetList(op.tags), defaults, s, method)

\* _build_paths, from the default tags to the check of security, on the
\* operation of a view
ApplyDefaults(op, defaults, s, method) ==
    TaggedOperation([op EXCEPT !.tags = WithDefault(@, defaults.tags, s, method)],
                    defaults, s, method)

\* the values tried for tags and security, and for operationId
ListArguments == {NoValue, Value("list", <<"given">>), Value("str", <<"given">>)}

IdArguments == {NoValue, Value("str", <<"getJobs">>)}

ListDefaults ==
    {NoValue, Value("list", <<>>), Value("list", <<"default">>), Value("str", <<"default">>),
     Value("callable", <<"tags_of">>), Value("callable", <<"name_of">>)}

IdDefaults == {NoValue, Value("callable", <<"name_of">>), Value("str", <<"getAll">>)}

SecurityDefaults ==
    {NoValue, Value("list", <<"default">>), Value("str", <<"default">>),
     Value("callable", <<"schemes_of">>)}

DefaultsServices == {[path |-> "/jobs", tags |-> <<>>], [path |-> "/jobs", tags |-> <<"jobs">>]}

InitDefaults ==
    /\ pc = "idle"
    /\ ref = 0
    /\ param_ref = FALSE
    /\ resp_ref = FALSE
    /\ definition_registry = EmptyReg
    /\ reglog = {}
    /\ parameter_registry = EmptyReg
    /\ response_registry = EmptyReg
    /\ NotGenerating
    /\ arg = <<>>
    /\ ret = <<>>
    /\ err = NoErr

\* the end of a turn of the loop over the views: the operation or the error
Applied(applied) ==
    /\ ret' = <<applied.op>>
    /\ err' = applied.err
    /\ pc' = IF applied.err = NoErr THEN "returned" ELSE "raised"

\* one turn of the loop of _build_paths over the views, for a view without
\* schema, from the operation of the view to the check of its security
BuildOperation(s, method, args, defaults) ==
    /\ pc = "idle"
    /\ Applied(ApplyDefaults(ViewOperation(args), defaults, s, method))
    /\ arg' = [service |-> s, method |-> method, args |-> args, defaults |-> defaults]
    /\ service' = s
    /\ UNCHANGED <<openapi_spec, converter_spec, path_obj, paths, tags, visited, hist,
                   nviews, swagger_info, kwargs, ignored>>
    /\ UNCHANGED handlerVars
    /\ UNCHANGED registryVars
    /\ UNCHANGED instanceVars

NextDefaults ==
    \E s \in DefaultsServices, method \in {"GET"},
       view_tags \in ListArguments, operation_id \in IdArguments,
       api_security \in ListArguments,
       default_tags \in ListDefaults, default_op_ids \in IdDefaults,
       default_security \in SecurityDefaults :
        BuildOperation(s, method,
                       [tags |-> view_tags, operation_id |-> operation_id,
                        api_security |-> api_security],
                       [tags |-> default_tags, op_ids |-> default_op_ids,
                        security |-> default_security])

SpecDefaults == InitDefaults /\ [][NextDefaults]_vars

\* the value a key is to have: the one of the view, else the default
\* (static, or the function applied to (service, method)), else none
Resulting(given, default) ==
    IF given.kind # "none" THEN given
    ELSE IF ~Configured(default) THEN NoValue
    ELSE IF default.kind = "callable" THEN Call(default.val[1], arg.service, arg.method)
    ELSE default

\* the tags of an operation whose own tags are op_tags, in a service
WithTagsOfService(op_tags) ==
    IF arg.service.tags = <<>> THEN op_tags
    ELSE Value("list", Deduplicated(arg.service.tags \o GetList(op_tags).val))

\* the tags or the security to have is not a list
NotAList(given, default) == Resulting(given, default).kind \notin {"none", "list"}

\* a turn of the loop has ended, with an operation or an error
Built == pc \in {"returned", "raised"}

\* the keys of the operation are those of the view, else of the default
Precedence ==
    (Built /\ err = NoErr) =>
        /\ ret[1].tags = WithTagsOfService(Resulting(arg.args.tags, arg.defaults.tags))
        /\ ret[1].operationId = Resulting(arg.args.operation_id, arg.defaults.op_ids)
        /\ ret[1].security = Resulting(arg.args.api_security, arg.defaults.security)

\* C25 as stated: the value of the view prevails, the default is used when
\* the view gives none and the key is omitted when there is neither;
\* generate() fails when the tags or the security to have is not a list, or
\* when a default generator of operation ids is configured and is not
\* callable
C25_ExplicitThenDefault ==
    /\ Precedence
    /\ Built =>
           (err # NoErr <=>
               \/ NotAList(arg.args.tags, arg.defaults.tags)
               \/ NotAList(arg.args.api_security, arg.defaults.security)
               \/ (Configured(arg.defaults.op_ids) /\ arg.defaults.op_ids.kind # "callable"))

\* C25, amended: as stated, but a default generator of operation ids that
\* is not callable is an error only for a view that gives no operation_id
C25_ExplicitThenDefault_Amended ==
    /\ Precedence
    /\ Built =>
           (err # NoErr <=>
               \/ NotAList(arg.args.tags, arg.defaults.tags)
               \/ NotAList(arg.args.api_security, arg.defaults.security)
               \/ /\ arg.args.operation_id.kind = "none"
                  /\ Configured(arg.defaults.op_ids)
                  /\ arg.defaults.op_ids.kind # "callable")

\* a view that gives its tags, its operation_id and its security, on a
\* class with defaults for the three, the one for operation ids a string
C25_Witness ==
    /\ pc = "returned"
    /\ arg.args.tags = Value("list", <<"given">>)
    /\ arg.defaults.tags = Value("list", <<"default">>)
    /\ arg.args.operation_id = Value("str", <<"getJobs">>)
    /\ arg.defaults.op_ids = Value("str", <<"getAll">>)
    /\ arg.args.api_security = Value("list", <<"given">>)
    /\ arg.defaults.security = Value("callable", <<"schemes_of">>)
    /\ ret[1].operationId = Value("str", <<"getJobs">>)
    /\ ret[1].security = Value("list", <<"given">>)

(***************************************************************************)
(* Claims on what generate() shares with its caller                        *)
(***************************************************************************)
\* the base document given to generate(), as its caller holds it after the
\* call: swagger.copy() is shallow, so swagger["tags"].append(tag) and
\* merge_dicts(swagger["paths"], paths), merge_dicts(swagger["definitions"],
\* definitions) change the list and the dicts of the document given
SuppliedAfter(kw, document) ==
    [kw.swagger[1] EXCEPT !.tags = IF @ = <<>> THEN @ ELSE <<document.tags>>,
                          !.paths = IF DOMAIN @ = {} THEN @ ELSE document.paths,
                          !.definitions = IF DOMAIN @ = {} THEN @
                                          ELSE document.definitions]

\* the info given to generate(), as its caller holds it after
\* info.update(title=title, version=version)
InfoAfter(kw) == InfoUpdated(kw.info[1], kw)

\* C29: after generate() returned, the base document given (its tags list,
\* its paths and its definitions included), the info given and the info of
\* the class-level base document are what they were before the call
C29_InputsUnchanged ==
    pc = "returned" =>
        /\ kwargs.swagger # <<>> => SuppliedAfter(kwargs, ret[1]) = kwargs.swagger[1]
        /\ kwargs.info # <<>> => InfoAfter(kwargs) = kwargs.info[1]
        /\ swagger_info = NoInfo

\* the document generate() returned, as its caller holds it now:
\* swagger.update(info=info) stores the dict `info` itself, which is the info
\* dict of the class-level base document when the call was given no info
Held(document, kw) ==
    IF kw.info = <<>> THEN [document EXCEPT !.info = swagger_info] ELSE document

\* C28: the document a call of generate() returned keeps the content it had
\* when it was returned, whatever calls of generate() follow on this or on
\* another instance
C28_ReturnedDocumentStable ==
    pc = "returned" => Held(ret[1], kwargs) = ret[1]

====
